---------------------------- MODULE Spec2Model ----------------------------
(***************************************************************************)
(* A model of the reverse-mode autodiff pieces of the repository:          *)
(*   - rev/fun/squared_distance.hpp : the squared_distance nodes (varis),  *)
(*     their constructors and chain() methods, on a tape that a reverse    *)
(*     sweep walks from the last node created to the first;                *)
(*   - opencl/copy.hpp : the copy overloads between host and device        *)
(*     buffers on an out-of-order command queue;                           *)
(*   - prim/prob/hmm_marginal_lpdf.hpp : the precondition checks, the      *)
(*     rescaled forward pass and the adjoint computation;                  *)
(*   - rev/mat/fun/ordered_constrain.hpp : the forward pass and the        *)
(*     adjoint-Jacobian product of ordered_constrain_op;                   *)
(*   - prim/err/check_finite.hpp, prim/scal/err/is_2F1_converges.hpp :     *)
(*     check_finite, check_nonnegative, is_2F1_converges and the matrix    *)
(*     finite-check helper;                                                *)
(*   - opencl/kernels/matrix_multiply.hpp : the tiles of the scalar        *)
(*     products that each thread of a split matrix multiply works on.      *)
(*                                                                         *)
(* Doubles are modelled by exact numbers: integers for squared_distance,   *)
(* rationals extended with NaN and +-infinity for the hidden Markov model. *)
(* Rounding is not modelled.                                               *)
(*                                                                         *)
(* Each subsystem has its own specification (SpecAD, SpecCL, SpecHmm,      *)
(* SpecOC, SpecErr, SpecMM); the variables of the other subsystems keep    *)
(* their initial values in it.                                             *)
(***************************************************************************)
EXTENDS Integers, Sequences, FiniteSets, TLC

VARIABLES
    \* ---- autodiff tape (squared_distance.hpp) ----
    tape,       \* the varis in creation order; a vari* is an index into it
    arena,      \* sizes of the arrays taken from memalloc_, in order
    ad_pc,      \* "build" | "sweep" | "done"
    cur,        \* the node the sweep visits next (0: none left)
    seed,       \* the node whose adjoint was seeded with 1 (0: none yet)
    chained,    \* the nodes whose chain() has run, in the order it ran
    wlog,       \* every write chain() made: [by, tgt, op, amt]
    ad_err,     \* the exception the last call ended with (NoExc: none)
    \* ---- device buffers and command queue (copy.hpp) ----
    mats,       \* matrix_cl objects: rows, cols, read_events, write_events
    queue,      \* every command enqueued so far; an event is an index here
    host,       \* where the host thread is: idle, or blocked inside a copy
    cl_err,     \* the exception the last copy ended with (NoExc: none)
    \* ---- one call of hmm_marginal_lpdf (hmm_marginal_lpdf.hpp) ----
    hmm_in,       \* the arguments: log_omegas, Gamma, rho, is_constant
    hmm_pc,       \* the statement to execute next, "done", "error", "abort"
    hmm_n,        \* the counter of the loop the call is in
    hmm_loc,      \* the local buffers and scalars
    ops_partials, \* the operands_and_partials object
    hmm_err,      \* the exception the call ended with (NoExc: none)
    hmm_ret,      \* the value and partials the call returned
    fwd_steps,    \* forward-pass columns computed so far
    touched,      \* the buffer elements accessed so far, as <<buffer, index>>
    \* ---- one use of ordered_constrain_op (ordered_constrain.hpp) ----
    oc_in,        \* the free vector x and the output adjoint adj
    oc_pc,        \* the statement to execute next, or "done"
    oc_n,         \* the counter of the loop the call is in
    oc_this,      \* the operator's fields: N_ and exp_x_
    oc_loc,       \* the locals: y, adj_times_jac, rolling_adjoint_sum
    oc_arena,     \* the arrays taken from memalloc_, in order
    oc_acc,       \* every access to exp_x_ so far, as <<"read"|"write", index>>
    \* ---- one call of an error-checking function (prim/err) ----
    err_in,       \* the function called and its arguments
    err_pc,       \* "call" | "done"
    err_out,      \* what the call did: the value returned or the exception
    \* ---- one work group of the matrix_multiply kernel, over its splits ----
    mm_in,        \* K, split_size, lower_upper_A, lower_upper_B, group ids
    mm_thread     \* per split_id: the tiles the thread computed, or NotRun

adVars == <<tape, arena, ad_pc, cur, seed, chained, wlog, ad_err>>

clVars == <<mats, queue, host, cl_err>>

hmmVars == <<hmm_in, hmm_pc, hmm_n, hmm_loc, ops_partials, hmm_err, hmm_ret,
             fwd_steps, touched>>

ocVars == <<oc_in, oc_pc, oc_n, oc_this, oc_loc, oc_arena, oc_acc>>

errVars == <<err_in, err_pc, err_out>>

mmVars == <<mm_in, mm_thread>>

vars == <<adVars, clVars, hmmVars, ocVars, errVars, mmVars>>

-----------------------------------------------------------------------------
(* Bounds of the autodiff model.                                           *)

MaxTape == 3        \* nodes on the tape
MaxVecLen == 2      \* coefficients of a vector argument

VarVals == {1, 3}   \* values of independent variables
DblVals == {2}      \* values of double (constant) operands

-----------------------------------------------------------------------------
(* Nodes.  One record shape for every vari class:                          *)
(*   leaf : an independent variable                                        *)
(*   svv, svd, sdv : scal_squared_distance_{vv,vd,dv}_vari                 *)
(*       a, b  : avi_, bvi_ (0: the operand is a double)                   *)
(*       ad, bd: ad_, bd_                                                  *)
(*   vvv, vvd : internal::squared_distance_{vv,vd}_vari                    *)
(*       v1 : v1_ (node indices), v2 : v2_ (node indices, or doubles)      *)

Node(kind, val, a, b, ad, bd, v1, v2) ==
    [kind |-> kind, val |-> val, adj |-> 0, a |-> a, b |-> b,
     ad |-> ad, bd |-> bd, v1 |-> v1, v2 |-> v2]

Leaf(v) == Node("leaf", v, 0, 0, 0, 0, <<>>, <<>>)

\* prim squared_distance(double, double)
squared_distance_dd(x, y) == (x - y) * (x - y)

scal_squared_distance_vv_vari(t, avi, bvi) ==
    Node("svv", squared_distance_dd(t[avi].val, t[bvi].val), avi, bvi, 0, 0,
         <<>>, <<>>)

scal_squared_distance_vd_vari(t, avi, b) ==
    Node("svd", squared_distance_dd(t[avi].val, b), avi, 0, 0, b, <<>>, <<>>)

scal_squared_distance_dv_vari(t, a, bvi) ==
    Node("sdv", squared_distance_dd(a, t[bvi].val), 0, bvi, a, 0, <<>>, <<>>)


\* var_squared_distance: the loop of lines 101-104 and 145-148, from index i on
RECURSIVE var_squared_distance(_, _, _, _)
var_squared_distance(x, y, len, i) ==
    IF i > len THEN 0
    ELSE LET diff == x[i] - y[i]
         IN  diff * diff + var_squared_distance(x, y, len, i + 1)

\* the values of the varis a Matrix<var> holds
ValsOf(t, d) == [i \in 1..Len(d) |-> t[d[i]].val]

squared_distance_vv_vari(t, m1, m2) ==
    Node("vvv",
         var_squared_distance(ValsOf(t, m1.d), ValsOf(t, m2.d), Len(m1.d), 1),
         0, 0, 0, 0, m1.d, [i \in 1..Len(m1.d) |-> m2.d[i]])

squared_distance_vd_vari(t, m1, m2) ==
    Node("vvd",
         var_squared_distance(ValsOf(t, m1.d), m2.d, Len(m1.d), 1),
         0, 0, 0, 0, m1.d, [i \in 1..Len(m1.d) |-> m2.d[i]])

-----------------------------------------------------------------------------
(* chain().  Each chain() is the sequence of writes it makes to adjoints,  *)
(* in program order; the amounts read only values and the node's own adj_. *)

Write(by, tgt, op, amt) == [by |-> by, tgt |-> tgt, op |-> op, amt |-> amt]

\* mutant: the second write adds instead of subtracting
scal_vv_chain_same_sign(t, k) ==
    LET diff == t[t[k].a].val - t[t[k].b].val
    IN  << Write(k, t[k].a, "add", t[k].adj * 2 * diff),
           Write(k, t[k].b, "add", t[k].adj * 2 * diff) >>

\* mutant: the first write goes to the node's own adj_ instead of avi_->adj_
scal_vv_chain_own_adj(t, k) ==
    LET diff == t[t[k].a].val - t[t[k].b].val
    IN  << Write(k, k, "add", t[k].adj * 2 * diff),
           Write(k, t[k].b, "add", -(t[k].adj * 2 * diff)) >>

\* mutant: the writes assign (=) instead of accumulating (+=, -=)
scal_vv_chain_assign(t, k) ==
    LET diff == t[t[k].a].val - t[t[k].b].val
    IN  << Write(k, t[k].a, "set", t[k].adj * 2 * diff),
           Write(k, t[k].b, "set", -(t[k].adj * 2 * diff)) >>

scal_vv_chain(t, k) ==
    LET diff == t[t[k].a].val - t[t[k].b].val
    IN  << Write(k, t[k].a, "add", t[k].adj * 2 * diff),
           Write(k, t[k].b, "add", -(t[k].adj * 2 * diff)) >>

scal_vd_chain(t, k) ==
    << Write(k, t[k].a, "add", t[k].adj * 2 * (t[t[k].a].val - t[k].bd)) >>

\* mutant: the double/var node adds where it must subtract
scal_dv_chain_plus(t, k) ==
    << Write(k, t[k].b, "add", t[k].adj * 2 * (t[k].ad - t[t[k].b].val)) >>

scal_dv_chain(t, k) ==
    << Write(k, t[k].b, "add", -(t[k].adj * 2 * (t[k].ad - t[t[k].b].val))) >>

RECURSIVE vec_vv_chain_from(_, _, _)
vec_vv_chain_from(t, k, i) ==
    IF i > Len(t[k].v1) THEN <<>>
    ELSE LET di == 2 * t[k].adj * (t[t[k].v1[i]].val - t[t[k].v2[i]].val)
         IN  << Write(k, t[k].v1[i], "add", di),
                Write(k, t[k].v2[i], "add", -di) >>
             \o vec_vv_chain_from(t, k, i + 1)

vec_vv_chain(t, k) == vec_vv_chain_from(t, k, 1)

RECURSIVE vec_vd_chain_from(_, _, _)
vec_vd_chain_from(t, k, i) ==
    IF i > Len(t[k].v1) THEN <<>>
    ELSE << Write(k, t[k].v1[i], "add",
                  2 * t[k].adj * (t[t[k].v1[i]].val - t[k].v2[i])) >>
         \o vec_vd_chain_from(t, k, i + 1)

vec_vd_chain(t, k) == vec_vd_chain_from(t, k, 1)

\* virtual dispatch on the node's class; vari::chain() of a leaf does nothing
chain(t, k) ==
    CASE t[k].kind = "svv" -> scal_vv_chain(t, k)
      [] t[k].kind = "svd" -> scal_vd_chain(t, k)
      [] t[k].kind = "sdv" -> scal_dv_chain(t, k)
      [] t[k].kind = "vvv" -> vec_vv_chain(t, k)
      [] t[k].kind = "vvd" -> vec_vd_chain(t, k)
      [] OTHER -> <<>>

\* the writes of ws, from the i-th on, carried out on the tape
RECURSIVE ApplyWrites(_, _, _)
ApplyWrites(t, ws, i) ==
    IF i > Len(ws) THEN t
    ELSE LET w == ws[i]
             t1 == IF w.op = "add"
                   THEN [t EXCEPT ![w.tgt].adj = @ + w.amt]
                   ELSE [t EXCEPT ![w.tgt].adj = w.amt]
         IN  ApplyWrites(t1, ws, i + 1)

-----------------------------------------------------------------------------
(* Matrix arguments: [rows, cols, d], d the coefficients in storage order  *)
(* (node indices for a Matrix<var>, numbers for a Matrix<double>).         *)

Mat(r, c, d) == [rows |-> r, cols |-> c, d |-> d]

\* row and column vectors of every length, the empty matrix and a square one
Shapes ==
    {<<n, 1>> : n \in 0..MaxVecLen} \cup {<<1, n>> : n \in 0..MaxVecLen}
    \cup {<<0, 0>>, <<2, 2>>}

\* coefficient lists of a Matrix<var> over the n nodes of the tape: the last
\* node repeated, or the first nodes of the tape
VarData(n, len) ==
    IF len = 0 THEN {<<>>}
    ELSE {[i \in 1..len |-> n] : k \in 1..(IF 1 <= n THEN 1 ELSE 0)}
         \cup {[i \in 1..len |-> i] : k \in 1..(IF len <= n THEN 1 ELSE 0)}

\* the coefficient list of a Matrix<double>: 1, 2, ...
DblData(len) ==
    IF len = 0 THEN {<<>>}
    ELSE {[i \in 1..len |-> i]}

VarMats(n) ==
    UNION {{Mat(sh[1], sh[2], d) : d \in VarData(n, sh[1] * sh[2])} :
           sh \in Shapes}

DblMats ==
    UNION {{Mat(sh[1], sh[2], d) : d \in DblData(sh[1] * sh[2])} :
           sh \in Shapes}

\* check_vector: a row vector or a column vector
check_vector(m) == m.rows = 1 \/ m.cols = 1

\* check_matching_sizes: the same number of coefficients
check_matching_sizes(m1, m2) == Len(m1.d) = Len(m2.d)

Exc(type, fn, arg) == [type |-> type, fn |-> fn, arg |-> arg]

\* no exception: the call returned
NoExc == Exc("none", "", "")

\* the result of a call: the tape and the arena after it, and its exception
Ret(t, ar, e) == [tape |-> t, arena |-> ar, err |-> e]

\* check_vector(v1); check_vector(v2); check_matching_sizes(v1, v2):
\* the exception the three checks of an Eigen overload end with, or "none"
squared_distance_checks(m1, m2) ==
    IF ~check_vector(m1)
    THEN Exc("invalid_argument", "squared_distance", "v1")
    ELSE IF ~check_vector(m2)
    THEN Exc("invalid_argument", "squared_distance", "v2")
    ELSE IF ~check_matching_sizes(m1, m2)
    THEN Exc("invalid_argument", "squared_distance", "v1,v2")
    ELSE NoExc

\* squared_distance(const var&, const var&) and its two mixed forms
squared_distance_var_var(t, ar, a, b) ==
    Ret(Append(t, scal_squared_distance_vv_vari(t, a, b)), ar, NoExc)

squared_distance_var_dbl(t, ar, a, b) ==
    Ret(Append(t, scal_squared_distance_vd_vari(t, a, b)), ar, NoExc)

squared_distance_dbl_var(t, ar, a, b) ==
    Ret(Append(t, scal_squared_distance_dv_vari(t, a, b)), ar, NoExc)

\* squared_distance(Matrix<var>, Matrix<var>): the checks, then the node,
\* whose constructor takes two arrays of length_ from the arena
squared_distance_mvar_mvar(t, ar, m1, m2) ==
    IF squared_distance_checks(m1, m2) # NoExc
    THEN Ret(t, ar, squared_distance_checks(m1, m2))
    ELSE Ret(Append(t, squared_distance_vv_vari(t, m1, m2)),
             ar \o <<Len(m1.d), Len(m1.d)>>, NoExc)

\* mutant: the arrays are taken from the arena before the checks
squared_distance_mvar_mdbl_alloc_first(t, ar, m1, m2) ==
    IF squared_distance_checks(m1, m2) # NoExc
    THEN Ret(t, ar \o <<Len(m1.d), Len(m1.d)>>,
             squared_distance_checks(m1, m2))
    ELSE Ret(Append(t, squared_distance_vd_vari(t, m1, m2)),
             ar \o <<Len(m1.d), Len(m1.d)>>, NoExc)

\* squared_distance(Matrix<var>, Matrix<double>)
squared_distance_mvar_mdbl(t, ar, m1, m2) ==
    IF squared_distance_checks(m1, m2) # NoExc
    THEN Ret(t, ar, squared_distance_checks(m1, m2))
    ELSE Ret(Append(t, squared_distance_vd_vari(t, m1, m2)),
             ar \o <<Len(m1.d), Len(m1.d)>>, NoExc)

\* squared_distance(Matrix<double>, Matrix<var>): builds the vd node with the
\* arguments exchanged
squared_distance_mdbl_mvar(t, ar, m1, m2) ==
    IF squared_distance_checks(m1, m2) # NoExc
    THEN Ret(t, ar, squared_distance_checks(m1, m2))
    ELSE Ret(Append(t, squared_distance_vd_vari(t, m2, m1)),
             ar \o <<Len(m2.d), Len(m2.d)>>, NoExc)

-----------------------------------------------------------------------------
(* The autodiff actions.                                                   *)

\* the forward computation goes on: it has not ended with an exception (no
\* operator catches one), and the tape has room
Building == ad_pc = "build" /\ ad_err = NoExc /\ Len(tape) < MaxTape

\* the call returns r
Returns(r) ==
    /\ tape' = r.tape
    /\ arena' = r.arena
    /\ ad_err' = r.err
    /\ UNCHANGED <<ad_pc, cur, seed, chained, wlog>>
    /\ UNCHANGED <<clVars, hmmVars, ocVars, errVars, mmVars>>

\* var x(v): a new independent variable
NewVar ==
    /\ Building
    /\ \E v \in VarVals :
          Returns(Ret(Append(tape, Leaf(v)), arena, NoExc))

ScalVV ==
    /\ Building
    /\ \E a \in 1..Len(tape), b \in 1..Len(tape) :
          Returns(squared_distance_var_var(tape, arena, a, b))

ScalVD ==
    /\ Building
    /\ \E a \in 1..Len(tape), b \in DblVals :
          Returns(squared_distance_var_dbl(tape, arena, a, b))

ScalDV ==
    /\ Building
    /\ \E a \in DblVals, b \in 1..Len(tape) :
          Returns(squared_distance_dbl_var(tape, arena, a, b))

VecVV ==
    /\ Building
    /\ \E m1 \in VarMats(Len(tape)), m2 \in VarMats(Len(tape)) :
          Returns(squared_distance_mvar_mvar(tape, arena, m1, m2))

VecVD ==
    /\ Building
    /\ \E m1 \in VarMats(Len(tape)), m2 \in DblMats :
          Returns(squared_distance_mvar_mdbl(tape, arena, m1, m2))

VecDV ==
    /\ Building
    /\ \E m1 \in DblMats, m2 \in VarMats(Len(tape)) :
          Returns(squared_distance_mdbl_mvar(tape, arena, m1, m2))

\* grad(vi): seed the output's adjoint and start at the top of the tape
Seed ==
    /\ ad_pc = "build"
    /\ ad_err = NoExc
    /\ \E k \in 1..Len(tape) :
          /\ tape' = [tape EXCEPT ![k].adj = 1]
          /\ seed' = k
    /\ cur' = Len(tape)
    /\ ad_pc' = "sweep"
    /\ UNCHANGED <<arena, chained, wlog, ad_err>>
    /\ UNCHANGED <<clVars, hmmVars, ocVars, errVars, mmVars>>

\* one step of the reverse sweep: chain() of the node under the cursor
ChainNext ==
    /\ ad_pc = "sweep"
    /\ cur >= 1
    /\ tape' = ApplyWrites(tape, chain(tape, cur), 1)
    /\ wlog' = wlog \o chain(tape, cur)
    /\ chained' = Append(chained, cur)
    /\ cur' = cur - 1
    /\ ad_pc' = IF cur = 1 THEN "done" ELSE "sweep"
    /\ UNCHANGED <<arena, seed, ad_err>>
    /\ UNCHANGED <<clVars, hmmVars, ocVars, errVars, mmVars>>

\* the AD variables at the start of an episode
ADInit ==
    /\ tape = <<>>
    /\ arena = <<>>
    /\ ad_pc = "build"
    /\ cur = 0
    /\ seed = 0
    /\ chained = <<>>
    /\ wlog = <<>>
    /\ ad_err = NoExc

NextAD ==
    \/ NewVar
    \/ ScalVV
    \/ ScalVD
    \/ ScalDV
    \/ VecVV
    \/ VecVD
    \/ VecDV
    \/ Seed
    \/ ChainNext


-----------------------------------------------------------------------------
(* Properties of the squared_distance nodes.                               *)

\* the sum of f[1] .. f[n]
RECURSIVE SumTo(_, _)
SumTo(f, n) == IF n = 0 THEN 0 ELSE f[n] + SumTo(f, n - 1)

Nodes == 1..Len(tape)

\* the position at which node k's chain() ran (0: it has not run)
ChainedAt(k) ==
    IF \E p \in 1..Len(chained) : chained[p] = k
    THEN CHOOSE p \in 1..Len(chained) : chained[p] = k
    ELSE 0

\* the writes chain() of node k made, in order
WritesBy(k) == SelectSeq(wlog, LAMBDA w : w.by = k)

\* the nodes node c holds a vari* to
OperandsOf(c) ==
    CASE tape[c].kind = "svv" -> {tape[c].a, tape[c].b}
      [] tape[c].kind = "svd" -> {tape[c].a}
      [] tape[c].kind = "sdv" -> {tape[c].b}
      [] tape[c].kind = "vvv" ->
           {tape[c].v1[i] : i \in 1..Len(tape[c].v1)}
           \cup {tape[c].v2[i] : i \in 1..Len(tape[c].v2)}
      [] tape[c].kind = "vvd" -> {tape[c].v1[i] : i \in 1..Len(tape[c].v1)}
      [] OTHER -> {}

(* C1: scalar squared_distance(a, b) of two vars has the value (a-b)^2; its *)
(* chain() adds adj*2*(a-b) to a's adjoint and then subtracts the same      *)
(* amount from b's; seeded with 1 over two distinct independent variables   *)
(* the sweep leaves da = 2(a-b) and db = -2(a-b): 4 and -4 for a=3, b=1.    *)
C1_ScalarVV ==
    \A k \in Nodes :
        tape[k].kind = "svv" =>
            LET a == tape[k].a
                b == tape[k].b
                diff == tape[a].val - tape[b].val
            IN  /\ tape[k].val = diff * diff
                /\ ChainedAt(k) # 0 =>
                      WritesBy(k) =
                          << Write(k, a, "add", tape[k].adj * 2 * diff),
                             Write(k, b, "add", 0 - tape[k].adj * 2 * diff) >>
                /\ ( /\ ad_pc = "done"
                     /\ seed = k
                     /\ a # b
                     /\ tape[a].kind = "leaf"
                     /\ tape[b].kind = "leaf" ) =>
                      /\ tape[a].adj = 2 * diff
                      /\ tape[b].adj = 0 - 2 * diff
                      /\ (tape[a].val = 3 /\ tape[b].val = 1) =>
                            /\ tape[k].val = 4
                            /\ tape[a].adj = 4
                            /\ tape[b].adj = -4

\* squared_distance(3, 1) seeded with 1 and swept
C1_Witness ==
    /\ ad_pc = "done"
    /\ seed \in Nodes
    /\ tape[seed].kind = "svv"
    /\ tape[seed].a # tape[seed].b
    /\ tape[tape[seed].a].kind = "leaf" /\ tape[tape[seed].a].val = 3
    /\ tape[tape[seed].b].kind = "leaf" /\ tape[tape[seed].b].val = 1
    /\ tape[tape[seed].a].adj = 4
    /\ tape[tape[seed].b].adj = -4

(* C2: the reverse sweep runs every node's chain() exactly once, last node  *)
(* created first, and a node's chain() runs only after the chain() of every *)
(* node that writes into its adjoint (every node that holds it as operand). *)
C2_TapeOrder ==
    /\ \A p, q \in 1..Len(chained) : p # q => chained[p] # chained[q]
    /\ ad_pc = "done" => {chained[p] : p \in 1..Len(chained)} = Nodes
    /\ ad_pc = "build" => chained = <<>>
    /\ \A i \in 1..Len(wlog) :
          /\ ChainedAt(wlog[i].by) # 0
          /\ wlog[i].tgt \in Nodes
          /\ ChainedAt(wlog[i].tgt) # 0 =>
                ChainedAt(wlog[i].by) < ChainedAt(wlog[i].tgt)
    /\ \A t \in Nodes :
          ChainedAt(t) # 0 =>
              \A c \in Nodes :
                  t \in OperandsOf(c) =>
                      ChainedAt(c) # 0 /\ ChainedAt(c) < ChainedAt(t)

\* a sweep is over in which an operation node was itself an operand
C2_Witness ==
    /\ ad_pc = "done"
    /\ Len(chained) = 3
    /\ \E i \in 1..Len(wlog) :
          /\ tape[wlog[i].tgt].kind # "leaf"
          /\ wlog[i].amt # 0

\* two matrix arguments squared_distance must refuse: one of them is neither
\* a row nor a column vector, or their sizes differ
BadShapes(m1, m2) ==
    \/ ~(m1.rows = 1 \/ m1.cols = 1)
    \/ ~(m2.rows = 1 \/ m2.cols = 1)
    \/ m1.rows * m1.cols # m2.rows * m2.cols

\* the call that returned r threw invalid_argument and left tape and arena
Refused(r) ==
    /\ r.err.type = "invalid_argument"
    /\ r.tape = tape
    /\ r.arena = arena

(* C6: each of the three vector overloads of squared_distance, called with  *)
(* an argument that is not a vector or with two sizes that differ, throws   *)
(* before a node is built or an array is taken from the arena: the tape and *)
(* the arena are as before the call.                                        *)
C6_ShapeChecksFirst ==
    /\ [](Building =>
             \A m1 \in VarMats(Len(tape)), m2 \in VarMats(Len(tape)) :
                 BadShapes(m1, m2) =>
                     Refused(squared_distance_mvar_mvar(tape, arena, m1, m2)))
    /\ [](Building =>
             \A m1 \in VarMats(Len(tape)), m2 \in DblMats :
                 BadShapes(m1, m2) =>
                     /\ Refused(squared_distance_mvar_mdbl(tape, arena,
                                                           m1, m2))
                     /\ Refused(squared_distance_mdbl_mvar(tape, arena,
                                                           m2, m1)))
    /\ [][ad_err'.type # "none" => tape' = tape /\ arena' = arena]_vars

\* a vector overload threw on a tape that already holds nodes
C6_Witness ==
    /\ ad_err.type = "invalid_argument"
    /\ ad_err.arg = "v1,v2"
    /\ Len(tape) >= 2

\* what chain() of the mixed node c adds to the adjoint of node t: the
\* share the both-differentiable node gives that operand
MixedShare(c, t) ==
    LET n == tape[c]
    IN  CASE n.kind = "svd" ->
               IF t = n.a THEN n.adj * 2 * (tape[n.a].val - n.bd) ELSE 0
          [] n.kind = "sdv" ->
               IF t = n.b THEN 0 - n.adj * 2 * (n.ad - tape[n.b].val) ELSE 0
          [] n.kind = "vvd" ->
               SumTo([i \in 1..Len(n.v1) |->
                         IF t = n.v1[i]
                         THEN n.adj * 2 * (tape[n.v1[i]].val - n.v2[i])
                         ELSE 0], Len(n.v1))
          [] OTHER -> 0

IsMixed(c) == tape[c].kind \in {"svd", "sdv", "vvd"}

(* C7: chain() of a mixed squared_distance node (scalar var/double, scalar  *)
(* double/var, vector var/double, vector double/var) changes the adjoints   *)
(* of its differentiable operand only, by +adj*2*(a-b) for a left operand   *)
(* and -adj*2*(a-b) for a right one, coefficient by coefficient; the        *)
(* constant operand has no node: building the node adds one node only.      *)
C7_MixedChain ==
    [][ /\ Len(tape') <= Len(tape) + 1
        /\ (ad_pc = "sweep" /\ cur >= 1 /\ IsMixed(cur) /\ cur' = cur - 1) =>
              /\ \A t \in Nodes :
                    tape'[t].adj = tape[t].adj + MixedShare(cur, t)
              /\ \A i \in (Len(wlog) + 1)..Len(wlog') :
                    /\ wlog'[i].tgt \in OperandsOf(cur)
                    /\ wlog'[i].op = "add"
      ]_vars

\* chain() of a mixed vector node and of a mixed scalar node have run and
\* have changed an operand's adjoint
C7_Witness ==
    /\ ad_pc = "done"
    /\ \E i \in 1..Len(wlog) :
          tape[wlog[i].by].kind = "vvd" /\ wlog[i].amt # 0
    /\ \E i \in 1..Len(wlog) :
          tape[wlog[i].by].kind \in {"svd", "sdv"} /\ wlog[i].amt # 0

\* what chain() of node c adds to the adjoint of node t
Share(c, t) ==
    LET n == tape[c]
    IN  CASE n.kind = "svv" ->
               (IF t = n.a
                THEN n.adj * 2 * (tape[n.a].val - tape[n.b].val) ELSE 0)
               - (IF t = n.b
                  THEN n.adj * 2 * (tape[n.a].val - tape[n.b].val) ELSE 0)
          [] n.kind = "vvv" ->
               SumTo([i \in 1..Len(n.v1) |->
                         (IF t = n.v1[i]
                          THEN 2 * n.adj
                               * (tape[n.v1[i]].val - tape[n.v2[i]].val)
                          ELSE 0)
                         - (IF t = n.v2[i]
                            THEN 2 * n.adj
                                 * (tape[n.v1[i]].val - tape[n.v2[i]].val)
                            ELSE 0)], Len(n.v1))
          [] OTHER -> MixedShare(c, t)

\* the nodes created after t that hold t as an operand
Consumers(t) == {c \in Nodes : c > t /\ t \in OperandsOf(c)}

(* C8: chain() only accumulates into adjoints.  After the sweep the adjoint *)
(* of every node is its seed plus the sum of the shares of all the nodes    *)
(* that hold it as an operand; a node used as both operands of one node     *)
(* gets a net 0 from it.                                                    *)
C8_Accumulate ==
    /\ \A i \in 1..Len(wlog) : wlog[i].op = "add"
    /\ ad_pc = "done" =>
          \A t \in Nodes :
              /\ tape[t].adj =
                    (IF t = seed THEN 1 ELSE 0)
                    + SumTo([c \in Nodes |-> Share(c, t)], Len(tape))
              /\ \A c \in Nodes :
                    (tape[c].kind = "svv" /\ tape[c].a = t /\ tape[c].b = t)
                        => Share(c, t) = 0

\* after the sweep a node holds the sum of the non-zero shares of two
\* different consumers
C8_Witness ==
    /\ ad_pc = "done"
    /\ \E t \in Nodes :
          /\ \E c, d \in Consumers(t) :
                /\ c # d
                /\ Share(c, t) # 0
                /\ Share(d, t) # 0
                /\ tape[t].adj = Share(c, t) + Share(d, t)

\* after the sweep a node used as both operands of a seeded-through node
\* keeps what its other consumer gave it
C8_WitnessSame ==
    /\ ad_pc = "done"
    /\ \E t \in Nodes :
          \E c, d \in Consumers(t) :
              /\ tape[c].kind = "svv" /\ tape[c].a = t /\ tape[c].b = t
              /\ tape[c].adj # 0
              /\ Share(d, t) # 0
              /\ tape[t].adj = Share(d, t)

-----------------------------------------------------------------------------
(***************************************************************************)
(* opencl/copy.hpp: copies between host memory and device buffers.         *)
(*                                                                         *)
(* The command queue is out of order: a command may start as soon as every *)
(* event of its wait list is complete, whatever was enqueued before it.    *)
(* An event is the index in `queue` of the command it belongs to.  Each    *)
(* matrix_cl keeps the events of the commands that read it (read_events)   *)
(* and of those that write it (write_events).  The host is one thread; a   *)
(* wait_for_*_events() or event.wait() blocks it until the device is done. *)
(***************************************************************************)

MaxCmds == 3        \* commands enqueued over a run

\* the matrix_cl objects: a transfer involves at most two of them
Bufs == {1, 2}

\* rows and columns of the matrices, on the device and on the host
CLShapes == {<<0, 0>>, <<1, 1>>, <<2, 1>>}

matrix_cl(r, c) ==
    [rows |-> r, cols |-> c, read_events |-> <<>>, write_events |-> <<>>]

size(m) == m.rows * m.cols

Cmd(kind, src, dst, waits) ==
    [kind |-> kind, src |-> src, dst |-> dst, waits |-> waits, st |-> "queued"]

\* the host side of a transfer is not a device buffer
Host == 0

vec_concat(v1, v2) == v1 \o v2

RangeOf(s) == {s[i] : i \in 1..Len(s)}

\* every event of the list is complete
AllComplete(evs) == \A e \in RangeOf(evs) : queue[e].st = "done"

check_size_match(fn, name_i, i, name_j, j) ==
    IF i # j THEN Exc("invalid_argument", fn, name_i) ELSE NoExc

\* the checks with the comparison of the rows left out
copy_checks_cols_only(fn, src_rows, src_cols, dst_rows, dst_cols) ==
    check_size_match(fn, "src.cols()", src_cols, "dst.cols()", dst_cols)

\* the two checks every matrix overload starts with
copy_checks(fn, src_rows, src_cols, dst_rows, dst_cols) ==
    LET e1 == check_size_match(fn, "src.rows()", src_rows,
                               "dst.rows()", dst_rows)
        e2 == check_size_match(fn, "src.cols()", src_cols,
                               "dst.cols()", dst_cols)
    IN  IF e1 # NoExc THEN e1 ELSE e2

\* the event-list methods of matrix_cl, on the map of all matrices
add_read_event(ms, b, e) ==
    [ms EXCEPT ![b].read_events = Append(@, e)]

add_write_event(ms, b, e) ==
    [ms EXCEPT ![b].write_events = Append(@, e)]

clear_read_events(ms, b) == [ms EXCEPT ![b].read_events = <<>>]

clear_write_events(ms, b) == [ms EXCEPT ![b].write_events = <<>>]

IdleHost == [pc |-> "idle", buf |-> 0, ev |-> 0]

HostIdle == host.pc = "idle" /\ Len(queue) < MaxCmds

\* a call that ends without touching the queue or the event lists
CLReturn(e) ==
    /\ cl_err' = e
    /\ UNCHANGED <<mats, queue, host>>

\* copy(matrix_cl& dst, const Eigen::Matrix& src): checks, then blocks
copy_h2d_call(dst, src) ==
    /\ HostIdle
    /\ LET e == copy_checks("copy (Eigen -> (OpenCL))", src[1], src[2],
                            mats[dst].rows, mats[dst].cols)
       IN  IF e # NoExc THEN CLReturn(e)
           ELSE IF src[1] * src[2] = 0 THEN CLReturn(NoExc)
           ELSE /\ host' = [pc |-> "h2d_wait_read", buf |-> dst, ev |-> 0]
                /\ cl_err' = NoExc
                /\ UNCHANGED <<mats, queue>>
    /\ UNCHANGED <<adVars, hmmVars, ocVars, errVars, mmVars>>

copy_h2d == \E dst \in Bufs, src \in CLShapes : copy_h2d_call(dst, src)

\* dst.wait_for_read_events(); dst.clear_read_events();
copy_h2d_read_events ==
    /\ host.pc = "h2d_wait_read"
    /\ AllComplete(mats[host.buf].read_events)
    /\ mats' = clear_read_events(mats, host.buf)
    /\ host' = [host EXCEPT !.pc = "h2d_wait_write"]
    /\ UNCHANGED <<queue, cl_err>>
    /\ UNCHANGED <<adVars, hmmVars, ocVars, errVars, mmVars>>

\* dst.wait_for_write_events(); dst.clear_write_events();
\* enqueueWriteBuffer(..., NULL, &copy_event); dst.add_write_event(copy_event);
copy_h2d_enqueue ==
    /\ host.pc = "h2d_wait_write"
    /\ AllComplete(mats[host.buf].write_events)
    /\ queue' = Append(queue, Cmd("write", Host, host.buf, <<>>))
    /\ mats' = add_write_event(clear_write_events(mats, host.buf), host.buf,
                            Len(queue) + 1)
    /\ host' = IdleHost
    /\ UNCHANGED cl_err
    /\ UNCHANGED <<adVars, hmmVars, ocVars, errVars, mmVars>>


\* an empty wait list (NULL) for the device -> host read
copy_d2h_events_none(src) == <<>>

\* the wait list of the device -> host read
copy_d2h_events(src) == src.write_events

\* copy(Eigen::Matrix& dst, const matrix_cl& src): checks, enqueues the read
copy_d2h_call(dst, src) ==
    /\ HostIdle
    /\ LET e == copy_checks("copy ((OpenCL) -> Eigen)", mats[src].rows,
                            mats[src].cols, dst[1], dst[2])
       IN  IF e # NoExc THEN CLReturn(e)
           ELSE IF size(mats[src]) = 0 THEN CLReturn(NoExc)
           ELSE /\ queue' = Append(queue, Cmd("read", src, Host,
                                              copy_d2h_events(mats[src])))
                /\ host' = [pc |-> "d2h_wait", buf |-> src,
                            ev |-> Len(queue) + 1]
                /\ cl_err' = NoExc
                /\ UNCHANGED mats
    /\ UNCHANGED <<adVars, hmmVars, ocVars, errVars, mmVars>>

copy_d2h == \E dst \in CLShapes, src \in Bufs : copy_d2h_call(dst, src)

\* copy_event.wait(); src.clear_write_events();
copy_d2h_return ==
    /\ host.pc = "d2h_wait"
    /\ queue[host.ev].st = "done"
    /\ mats' = clear_write_events(mats, host.buf)
    /\ host' = IdleHost
    /\ UNCHANGED <<queue, cl_err>>
    /\ UNCHANGED <<adVars, hmmVars, ocVars, errVars, mmVars>>

\* a wait list that leaves out the writes pending on the source
copy_d2d_events_dst_only(dst, src) == dst.read_events

\* the wait list of the device -> device copy
copy_d2d_events(dst, src) == vec_concat(dst.read_events, src.write_events)

\* copy(matrix_cl& dst, const matrix_cl& src): never blocks
copy_d2d_call(dst, src) ==
    /\ HostIdle
    /\ LET e == copy_checks("copy ((OpenCL) -> (OpenCL))", mats[src].rows,
                            mats[src].cols, mats[dst].rows, mats[dst].cols)
           ev == Len(queue) + 1
       IN  IF e # NoExc THEN CLReturn(e)
           ELSE IF size(mats[src]) = 0 THEN CLReturn(NoExc)
           ELSE /\ queue' = Append(queue, Cmd("copy", src, dst,
                                  copy_d2d_events(mats[dst], mats[src])))
                /\ mats' = add_read_event(add_write_event(mats, dst, ev),
                                          src, ev)
                /\ cl_err' = NoExc
                /\ UNCHANGED host
    /\ UNCHANGED <<adVars, hmmVars, ocVars, errVars, mmVars>>

copy_d2d == \E dst \in Bufs, src \in Bufs : copy_d2d_call(dst, src)

\* copy(T& dst, const matrix_cl& src): src must be 1 x 1
copy_scalar_d2h ==
    /\ HostIdle
    /\ \E src \in Bufs :
          LET e == copy_checks("copy ((OpenCL) -> (OpenCL))", mats[src].rows,
                               mats[src].cols, 1, 1)
          IN  IF e # NoExc THEN CLReturn(e)
              ELSE /\ queue' = Append(queue, Cmd("read", src, Host,
                                                 mats[src].write_events))
                   /\ host' = [pc |-> "scalar_d2h_wait", buf |-> src,
                               ev |-> Len(queue) + 1]
                   /\ cl_err' = NoExc
                   /\ UNCHANGED mats
    /\ UNCHANGED <<adVars, hmmVars, ocVars, errVars, mmVars>>

\* copy_event.wait(); src.clear_write_events();
copy_scalar_d2h_return ==
    /\ host.pc = "scalar_d2h_wait"
    /\ queue[host.ev].st = "done"
    /\ mats' = clear_write_events(mats, host.buf)
    /\ host' = IdleHost
    /\ UNCHANGED <<queue, cl_err>>
    /\ UNCHANGED <<adVars, hmmVars, ocVars, errVars, mmVars>>

\* copy(matrix_cl& dst, const T& src): dst must be 1 x 1
copy_scalar_h2d ==
    /\ HostIdle
    /\ \E dst \in Bufs :
          LET e == copy_checks("copy ((OpenCL) -> (OpenCL))", mats[dst].rows,
                               mats[dst].cols, 1, 1)
          IN  IF e # NoExc THEN CLReturn(e)
              ELSE /\ host' = [pc |-> "scalar_h2d_wait_read", buf |-> dst,
                               ev |-> 0]
                   /\ cl_err' = NoExc
                   /\ UNCHANGED <<mats, queue>>
    /\ UNCHANGED <<adVars, hmmVars, ocVars, errVars, mmVars>>

\* dst.wait_for_read_events(); dst.clear_read_events();
\* enqueueWriteBuffer(..., NULL, &copy_event); dst.add_write_event(copy_event);
copy_scalar_h2d_enqueue ==
    /\ host.pc = "scalar_h2d_wait_read"
    /\ AllComplete(mats[host.buf].read_events)
    /\ queue' = Append(queue, Cmd("write", Host, host.buf, <<>>))
    /\ mats' = add_write_event(clear_read_events(mats, host.buf), host.buf,
                               Len(queue) + 1)
    /\ host' = IdleHost
    /\ UNCHANGED cl_err
    /\ UNCHANGED <<adVars, hmmVars, ocVars, errVars, mmVars>>

\* the device starts a command whose wait list is complete
DeviceStart ==
    /\ \E c \in 1..Len(queue) :
          /\ queue[c].st = "queued"
          /\ AllComplete(queue[c].waits)
          /\ queue' = [queue EXCEPT ![c].st = "running"]
    /\ UNCHANGED <<mats, host, cl_err>>
    /\ UNCHANGED <<adVars, hmmVars, ocVars, errVars, mmVars>>

\* the device finishes a running command: its event is complete
DeviceComplete ==
    /\ \E c \in 1..Len(queue) :
          /\ queue[c].st = "running"
          /\ queue' = [queue EXCEPT ![c].st = "done"]
    /\ UNCHANGED <<mats, host, cl_err>>
    /\ UNCHANGED <<adVars, hmmVars, ocVars, errVars, mmVars>>

\* the device variables when no matrix_cl is in use
CLIdle ==
    /\ mats = [b \in Bufs |-> matrix_cl(0, 0)]
    /\ queue = <<>>
    /\ host = IdleHost
    /\ cl_err = NoExc

\* matrices of any of the shapes, with no event pending
CLInit ==
    /\ mats \in [Bufs -> {matrix_cl(s[1], s[2]) : s \in CLShapes}]
    /\ queue = <<>>
    /\ host = IdleHost
    /\ cl_err = NoExc

NextCL ==
    \/ copy_h2d
    \/ copy_h2d_read_events
    \/ copy_h2d_enqueue
    \/ copy_d2h
    \/ copy_d2h_return
    \/ copy_d2d
    \/ copy_scalar_d2h
    \/ copy_scalar_d2h_return
    \/ copy_scalar_h2d
    \/ copy_scalar_h2d_enqueue
    \/ DeviceStart
    \/ DeviceComplete

\* the temporary matrix_cl of packed_copy is none of the caller's matrices
Packed == 3

\* the wait list of a kernel launch: the writes pending on its input buffer
\* and every event pending on its output buffer
pack_events(packed, src) ==
    vec_concat(vec_concat(packed.read_events, packed.write_events),
               src.write_events)

\* the wait list of the host read of the temporary
packed_copy_events(packed, src) ==
    vec_concat(packed.read_events, src.write_events)

\* packed_copy(const matrix_cl& src): packs src into a temporary with the
\* pack kernel, enqueues the read of the temporary and blocks on it
packed_copy_call(src) ==
    /\ HostIdle
    /\ LET packed_size == (mats[src].rows * (mats[src].rows + 1)) \div 2
           kernel == Len(queue) + 1
           ev == Len(queue) + 2
           fresh == matrix_cl(packed_size, 1)
           packed == [fresh EXCEPT !.write_events = Append(@, kernel)]
       IN  IF packed_size = 0 THEN CLReturn(NoExc)
           ELSE /\ ev <= MaxCmds
                /\ queue' = queue
                     \o <<Cmd("pack", src, Packed,
                              pack_events(fresh, mats[src])),
                          Cmd("read", Packed, Host,
                              packed_copy_events(packed, mats[src]))>>
                /\ mats' = add_read_event(mats, src, kernel)
                /\ host' = [pc |-> "packed_wait", buf |-> src, ev |-> ev]
                /\ cl_err' = NoExc
    /\ UNCHANGED <<adVars, hmmVars, ocVars, errVars, mmVars>>

packed_copy == \E src \in Bufs : packed_copy_call(src)

\* copy_event.wait(); src.clear_write_events(); src.clear_read_events();
packed_copy_return ==
    /\ host.pc = "packed_wait"
    /\ queue[host.ev].st = "done"
    /\ mats' = clear_read_events(clear_write_events(mats, host.buf), host.buf)
    /\ host' = IdleHost
    /\ UNCHANGED <<queue, cl_err>>
    /\ UNCHANGED <<adVars, hmmVars, ocVars, errVars, mmVars>>

\* the copy overloads together with packed_copy
NextPacked ==
    \/ NextCL
    \/ packed_copy
    \/ packed_copy_return

-----------------------------------------------------------------------------
(* Properties of the copy overloads.                                       *)

\* the commands that have started (running or done)
Started(c) == queue[c].st # "queued"

\* the commands enqueued before c that write, or read, buffer b
EarlierWrites(c, b) == {w \in 1..(c - 1) : queue[w].dst = b}

EarlierReads(c, b) == {r \in 1..(c - 1) : queue[r].src = b}

\* C3: over any sequence of the copy overloads on the out-of-order queue, a
\* command that reads a device buffer has not started unless every write to
\* that buffer enqueued before it is complete, and a command that writes a
\* device buffer has not started unless every read of that buffer enqueued
\* before it is complete.
C3_ReadWriteOrder ==
    \A c \in 1..Len(queue) : \A b \in Bufs :
        Started(c) =>
            /\ queue[c].src = b =>
                  \A w \in EarlierWrites(c, b) : queue[w].st = "done"
            /\ queue[c].dst = b =>
                  \A r \in EarlierReads(c, b) : queue[r].st = "done"

\* a device -> device copy is running whose source was written and whose
\* destination was read by commands enqueued before it, while a third
\* command is still waiting
C3_Witness ==
    \E c \in 1..Len(queue) :
        /\ queue[c].kind = "copy"
        /\ queue[c].st = "running"
        /\ EarlierWrites(c, queue[c].src) # {}
        /\ EarlierReads(c, queue[c].dst) # {}
        /\ \E d \in 1..Len(queue) : queue[d].st = "queued"

\* a host read is running on a buffer that an earlier command wrote
C3_WitnessRead ==
    \E c \in 1..Len(queue) :
        /\ queue[c].kind = "read"
        /\ queue[c].st = "running"
        /\ EarlierWrites(c, queue[c].src) # {}

\* a host write is running on a buffer that an earlier command read
C3_WitnessWrite ==
    \E c \in 1..Len(queue) :
        /\ queue[c].kind = "write"
        /\ queue[c].st = "running"
        /\ EarlierReads(c, queue[c].dst) # {}

\* ---- the checks at the head of the matrix overloads ---------------------

\* the shape of matrix b as the pair the host matrices are given by
ShapeOf(b) == <<mats[b].rows, mats[b].cols>>

\* what a call of a matrix overload with source shape s and destination
\* shape d does when the shapes differ, and when they agree on a zero size
ChecksFirst(s, d) ==
    /\ s # d =>
          /\ cl_err'.type = "invalid_argument"
          /\ UNCHANGED <<mats, queue, host>>
    /\ (s = d /\ s[1] * s[2] = 0) =>
          /\ cl_err' = NoExc
          /\ UNCHANGED <<mats, queue, host>>

\* C17: each matrix copy overload (host -> device, device -> host, device
\* -> device) checks the rows and columns first: when they differ the call
\* raises invalid_argument, enqueues nothing and leaves the event lists of
\* both matrices as they were; when they agree and the size is zero the call
\* returns without enqueuing anything or changing an event list.
C17_CopyChecksFirst ==
    [][/\ \A dst \in Bufs, src \in CLShapes :
              copy_h2d_call(dst, src) => ChecksFirst(src, ShapeOf(dst))
       /\ \A dst \in CLShapes, src \in Bufs :
              copy_d2h_call(dst, src) => ChecksFirst(ShapeOf(src), dst)
       /\ \A dst \in Bufs, src \in Bufs :
              copy_d2d_call(dst, src) => ChecksFirst(ShapeOf(src), ShapeOf(dst))
      ]_vars

\* a copy has raised invalid_argument while a transfer enqueued before it
\* is still pending on a matrix, whose event lists kept their events
C17_Witness ==
    /\ cl_err.type = "invalid_argument"
    /\ host.pc = "idle"
    /\ \E c \in 1..Len(queue) : queue[c].st # "done"
    /\ \E b \in Bufs : mats[b].read_events # <<>> /\ mats[b].write_events # <<>>

\* ---- the device -> host copies block -------------------------------------

\* the host is inside a device -> host copy, waiting for copy_event
InD2H(h) == h.pc \in {"d2h_wait", "scalar_d2h_wait"}

\* the writes to buffer b enqueued before command c that are not complete
PendingWrites(c, b) == {w \in EarlierWrites(c, b) : queue[w].st # "done"}

\* C18: the device -> host copies block: the read they enqueue waits for
\* every pending write of src and does not start before those are complete,
\* the call returns only once the read is complete, and on return src has
\* no pending write event.
C18_D2HBlocks ==
    [][/\ (~InD2H(host) /\ InD2H(host')) =>
              /\ Len(queue') = Len(queue) + 1
              /\ host'.ev = Len(queue')
              /\ queue'[host'.ev].kind = "read"
              /\ queue'[host'.ev].src = host'.buf
              /\ PendingWrites(host'.ev, host'.buf)
                     \subseteq RangeOf(queue'[host'.ev].waits)
       /\ InD2H(host) =>
              /\ host' # host => ~InD2H(host')
              /\ (queue[host.ev].st = "queued" /\ queue'[host.ev].st # "queued")
                     => PendingWrites(host.ev, host.buf) = {}
       /\ (InD2H(host) /\ ~InD2H(host')) =>
              /\ queue[host.ev].st = "done"
              /\ host'.pc = "idle"
              /\ mats'[host.buf].write_events = <<>>
              /\ PendingWrites(Len(queue') + 1, host.buf) = {}
      ]_vars

\* a device -> host copy of a matrix has returned after a read that had to
\* wait for a write to its source
C18_Witness ==
    /\ host.pc = "idle"
    /\ \E c \in 1..Len(queue) :
           /\ queue[c].kind = "read"
           /\ queue[c].st = "done"
           /\ queue[c].waits # <<>>
           /\ mats[queue[c].src].write_events = <<>>
           /\ size(mats[queue[c].src]) > 1

\* the host read of a packed_copy temporary: the command after its kernel
PackedReads == {c \in 1..Len(queue) : queue[c].src = Packed}

\* C22: in packed_copy the host read of the temporary packed buffer does not
\* start before the pack kernel's write to that buffer is complete, and the
\* read and write event lists of src are cleared only when every event in
\* them is complete.
C22_PackedCopyOrder ==
    [][/\ \A c \in PackedReads :
             (~Started(c) /\ queue'[c].st # "queued") =>
                 queue[c - 1].st = "done"
       /\ packed_copy_return =>
             /\ AllComplete(mats[host.buf].write_events)
             /\ AllComplete(mats[host.buf].read_events)]_vars

\* what the wait list of the read does give: the read of the temporary does
\* not start before the writes that were pending on src are complete, and
\* the write events of src are complete when they are cleared
C22_SrcWritesComplete ==
    [][/\ \A c \in PackedReads :
             (~Started(c) /\ queue'[c].st # "queued") =>
                 \A w \in EarlierWrites(c - 1, queue[c - 1].src) :
                     queue[w].st = "done"
       /\ packed_copy_return =>
             AllComplete(mats[host.buf].write_events)]_vars

\* packed_copy has returned for a source that an earlier command wrote,
\* while its pack kernel has not finished
C22_Witness ==
    /\ host.pc = "idle"
    /\ \E c \in PackedReads :
           /\ queue[c].st = "done"
           /\ queue[c].waits # <<>>
           /\ queue[c - 1].st # "done"
           /\ mats[queue[c - 1].src].read_events = <<>>

-----------------------------------------------------------------------------
(***************************************************************************)
(* Doubles of prim/prob/hmm_marginal_lpdf.hpp as exact numbers.            *)
(*                                                                         *)
(* A double is a pair <<n, d>>: the rational n/d in lowest terms with      *)
(* d > 0, or <<1, 0>> for +infinity, <<-1, 0>> for -infinity, <<0, 0>> for *)
(* NaN.  The operations follow IEEE 754 on these values (0/0, inf - inf    *)
(* and 0 * inf are NaN, x/0 is an infinity, NaN compares false).           *)
(*                                                                         *)
(* The value std::log(x) is kept as the record [log |-> x]: adding two     *)
(* logarithms multiplies their arguments, subtracting divides them, and    *)
(* std::exp gives the argument back.  log(0) is -infinity, log(+inf) is    *)
(* +infinity and the logarithm of a negative number or of NaN is NaN.      *)
(***************************************************************************)

Abs(n) == IF n < 0 THEN -n ELSE n

Sgn(n) == IF n < 0 THEN -1 ELSE IF n > 0 THEN 1 ELSE 0

RECURSIVE GCD(_, _)
GCD(a, b) == IF b = 0 THEN a ELSE GCD(b, a % b)

\* n/d in lowest terms, d >= 0
Norm(n, d) ==
    IF d = 0 THEN <<Sgn(n), 0>>
    ELSE LET g == GCD(Abs(n), Abs(d))
         IN  <<(Sgn(d) * n) \div g, Abs(d) \div g>>

NaN == <<0, 0>>
PosInf == <<1, 0>>
NegInf == <<-1, 0>>
Zero == <<0, 1>>
One == <<1, 1>>

isnan(x) == x = NaN

Mul(x, y) == Norm(x[1] * y[1], x[2] * y[2])

\* 1/x: 1/0 is +infinity, 1/inf is 0
Inv(x) == IF x[1] < 0 THEN <<-x[2], -x[1]>> ELSE <<x[2], x[1]>>

Div(x, y) == Mul(x, Inv(y))

Add(x, y) ==
    IF isnan(x) \/ isnan(y) THEN NaN
    ELSE IF x[2] = 0 THEN (IF y[2] = 0 /\ y # x THEN NaN ELSE x)
    ELSE IF y[2] = 0 THEN y
    ELSE Norm(x[1] * y[2] + y[1] * x[2], x[2] * y[2])

\* x > y as doubles compare: false when either is NaN
Gt(x, y) ==
    IF isnan(x) \/ isnan(y) THEN FALSE
    ELSE IF x[2] = 0 /\ y[2] = 0 THEN x[1] > y[1]
    ELSE x[1] * y[2] > y[1] * x[2]

\* x >= y as doubles compare
Ge(x, y) == ~isnan(x) /\ ~isnan(y) /\ ~Gt(y, x)

\* std::log
log(x) == IF x[1] < 0 THEN [log |-> NaN] ELSE [log |-> x]

\* std::exp
exp(l) == l.log

\* l1 + l2 and l1 - l2 on logarithms
LogAdd(l1, l2) == [log |-> Mul(l1.log, l2.log)]

LogSub(l1, l2) == [log |-> Div(l1.log, l2.log)]

\* the double 0.0 where the code uses it as a logarithm
LogZero == log(One)

\* ---- vectors (sequences of doubles) and matrices (sequences of columns) --

RECURSIVE SumFrom(_, _)
SumFrom(v, i) == IF i > Len(v) THEN Zero ELSE Add(v[i], SumFrom(v, i + 1))

\* v.sum()
sum(v) == SumFrom(v, 1)

\* v.maxCoeff(): a scan that keeps the larger of the running value and v[i]
RECURSIVE MaxFrom(_, _, _)
MaxFrom(v, i, res) ==
    IF i > Len(v) THEN res
    ELSE MaxFrom(v, i + 1, IF Gt(v[i], res) THEN v[i] ELSE res)

maxCoeff(v) == MaxFrom(v, 2, v[1])

cwiseProduct(v, w) == [i \in 1..Len(v) |-> Mul(v[i], w[i])]

\* v / s and s * v
VecDiv(v, s) == [i \in 1..Len(v) |-> Div(v[i], s)]

VecScale(s, v) == [i \in 1..Len(v) |-> Mul(s, v[i])]

\* the r x c matrix with coefficient f[i, j] in row i and column j
Matrix(r, c, f) ==
    [rows |-> r, cols |-> c, col |-> [j \in 1..c |-> [i \in 1..r |-> f[i, j]]]]

\* row(m, i) and col(m, j), both counted from 1
row(m, i) == [j \in 1..m.cols |-> m.col[j][i]]

col(m, j) == m.col[j]

transpose(m) ==
    Matrix(m.cols, m.rows, [i \in 1..m.cols, j \in 1..m.rows |-> m.col[i][j]])

\* m * v
MatVec(m, v) == [i \in 1..m.rows |-> sum(cwiseProduct(row(m, i), v))]

\* Eigen::MatrixXd::Zero(r, c)
ZeroMatrix(r, c) == Matrix(r, c, [i \in 1..r, j \in 1..c |-> Zero])

\* m / s, and the coefficient-wise product of two matrices
MatDiv(m, s) ==
    Matrix(m.rows, m.cols,
           [i \in 1..m.rows, j \in 1..m.cols |-> Div(m.col[j][i], s)])

MatCwiseProduct(m1, m2) ==
    Matrix(m1.rows, m1.cols,
           [i \in 1..m1.rows, j \in 1..m1.cols |->
               Mul(m1.col[j][i], m2.col[j][i])])

MatAdd(m1, m2) ==
    Matrix(m1.rows, m1.cols,
           [i \in 1..m1.rows, j \in 1..m1.cols |->
               Add(m1.col[j][i], m2.col[j][i])])

\* the outer product v * w^T
Outer(v, w) ==
    Matrix(Len(v), Len(w), [i \in 1..Len(v), j \in 1..Len(w) |-> Mul(v[i], w[j])])

\* m with column j replaced by v
SetCol(m, j, v) == [m EXCEPT !.col[j] = v]

-----------------------------------------------------------------------------
(***************************************************************************)
(* prim/prob/hmm_marginal_lpdf.hpp: the arguments, the precondition        *)
(* checks, the forward pass and the Jacobian-adjoint products.             *)
(***************************************************************************)

MaxStates == 2      \* rows of log_omegas (hidden states)
MaxTrans == 2       \* largest n_transitions (columns of log_omegas - 1)

\* a column of omegas = exp(log_omegas): 1/2 1/3 ..., or 0 1 1 ... (that is,
\* log_omega = -infinity for the first state)
OmegaCols(n) ==
    { [i \in 1..n |-> <<1, i + 1>>],
      [i \in 1..n |-> IF i = 1 THEN Zero ELSE One] }

\* log_omegas with n rows and c columns, built from those columns
LogOmegas(n, c) ==
    { Matrix(n, c, [i \in 1..n, j \in 1..c |-> log(f[j][i])])
      : f \in [1..c -> OmegaCols(n)] }

\* transition matrices whose rows are simplexes: the identity, all 1/n, and
\* the lower triangle with row i uniform over the states 1..i
GammaValid(n) ==
    { Matrix(n, n, [i \in 1..n, j \in 1..n |-> IF i = j THEN One ELSE Zero]),
      Matrix(n, n, [i \in 1..n, j \in 1..n |-> <<1, n>>]),
      Matrix(n, n, [i \in 1..n, j \in 1..n |->
                       IF j <= i THEN <<1, i>> ELSE Zero]) }

\* transition matrices a check rejects: not square, square of another size,
\* row r summing to 3/2, row r with a negative entry and sum 1
GammaInvalid(n) ==
    { Matrix(n, n + 1, [i \in 1..n, j \in 1..(n + 1) |-> <<1, n + 1>>]),
      Matrix(n + 1, n + 1, [i \in 1..(n + 1), j \in 1..(n + 1) |->
                               IF i = j THEN One ELSE Zero]) }
    \cup { Matrix(n, n, [i \in 1..n, j \in 1..n |-> IF i # j THEN Zero
                                     ELSE IF i = r THEN <<3, 2>> ELSE One])
           : r \in 1..n }
    \cup { Matrix(n, n, [i \in 1..n, j \in 1..n |->
               IF i # r THEN (IF i = j THEN One ELSE Zero)
               ELSE IF j = 1 THEN <<3, 2>>
               ELSE IF j = 2 THEN <<-1, 2>> ELSE Zero])
           : r \in (IF n >= 2 THEN 1..n ELSE {}) }

\* initial distributions: uniform, all mass on the first or on the last state
RhoValid(n) ==
    { [i \in 1..n |-> <<1, n>>],
      [i \in 1..n |-> IF i = 1 THEN One ELSE Zero],
      [i \in 1..n |-> IF i = n THEN One ELSE Zero] }

\* initial distributions a check rejects: one entry too many, sum 3/2
RhoInvalid(n) ==
    { [i \in 1..(n + 1) |-> <<1, n + 1>>],
      [i \in 1..n |-> IF i = 1 THEN <<3, 2>> ELSE Zero] }

\* is_constant_all<T> of the three template parameters
Constness == [omega : BOOLEAN, Gamma : BOOLEAN, rho : BOOLEAN]

Args(lo, G, r, k) == [log_omegas |-> lo, Gamma |-> G, rho |-> r, is_constant |-> k]

\* arguments that pass every check, with 0 .. MaxTrans + 1 columns
ArgsValid ==
    UNION { { Args(lo, G, r, k) :
                lo \in UNION { LogOmegas(n, c) : c \in 0..(MaxTrans + 1) },
                G \in GammaValid(n),
                r \in RhoValid(n),
                k \in Constness }
            : n \in 1..MaxStates }

\* calls in which Gamma or rho (or both) is rejected
ArgsInvalid ==
    UNION { { Args(lo, G, r, k) :
                lo \in { Matrix(n, c, [i \in 1..n, j \in 1..c |-> log(One)])
                         : c \in 1..2 },
                G \in GammaValid(n) \cup GammaInvalid(n),
                r \in RhoValid(n) \cup RhoInvalid(n),
                k \in Constness }
            : n \in 1..MaxStates }

\* ---- the checks -------------------------------------------------------

\* check_square
is_square(m) == m.rows = m.cols

\* check_consistent_size on a vector
is_consistent_size(v, n) == Len(v) = n

\* check_simplex: not empty, sum 1, no entry below 0
is_simplex(v) ==
    /\ Len(v) > 0
    /\ sum(v) = One
    /\ \A i \in 1..Len(v) : Ge(v[i], Zero)

\* the preconditions on Gamma: square, n_states columns, rows simplexes
GammaPreconditions(a) ==
    /\ is_square(a.Gamma)
    /\ a.Gamma.cols = a.log_omegas.rows
    /\ \A i \in 1..a.Gamma.rows : is_simplex(row(a.Gamma, i))

\* the preconditions on rho: n_states entries, a simplex
RhoPreconditions(a) ==
    /\ Len(a.rho) = a.log_omegas.rows
    /\ is_simplex(a.rho)

\* every precondition of hmm_marginal_lpdf
Preconditions(a) == GammaPreconditions(a) /\ RhoPreconditions(a)

n_states(a) == a.log_omegas.rows

n_transitions(a) == a.log_omegas.cols - 1

\* a double, or a coefficient, that has been declared but not assigned yet
Uninit == <<0, -1>>

\* Eigen::MatrixXd(r, c), Eigen::VectorXd(n), std::vector<double>(n)
UninitMatrix(r, c) == Matrix(r, c, [i \in 1..r, j \in 1..c |-> Uninit])

UninitLogs(n) == [i \in 1..n |-> [log |-> Uninit]]

UninitVector(n) == [i \in 1..n |-> Uninit]

\* the locals of hmm_marginal_lpdf before their declarations are reached
NoLocals ==
    [ alphas |-> UninitMatrix(0, 0), alpha_log_norms |-> <<>>,
      omegas |-> UninitMatrix(0, 0), Gamma_dbl |-> UninitMatrix(0, 0),
      log_marginal_density |-> [log |-> Uninit],
      norm_norm |-> [log |-> Uninit], unnormed_marginal |-> Uninit,
      kappa |-> <<>>, kappa_log_norms |-> <<>>, grad_corr |-> <<>> ]

\* an edge of operands_and_partials: partials of the operand's shape, all 0,
\* for an operand that carries derivatives; nothing for a constant one
Edge(is_const, r, c) == IF is_const THEN ZeroMatrix(0, 0) ELSE ZeroMatrix(r, c)

NoPartials ==
    [ created |-> FALSE, edge1 |-> ZeroMatrix(0, 0),
      edge2 |-> ZeroMatrix(0, 0), edge3 |-> ZeroMatrix(0, 0) ]

operands_and_partials(a) ==
    [ created |-> TRUE,
      edge1 |-> Edge(a.is_constant.omega, a.log_omegas.rows, a.log_omegas.cols),
      edge2 |-> Edge(a.is_constant.Gamma, a.Gamma.rows, a.Gamma.cols),
      edge3 |-> Edge(a.is_constant.rho, Len(a.rho), 1) ]

\* the statements of hmm_marginal_lpdf in program order
HmmOrder_simplex_rho_late ==
    << "check_square", "check_consistent_size_Gamma", "check_simplex_Gamma",
       "check_consistent_size_rho", "ops_partials",
       "forward_init", "forward_loop", "forward_return", "check_simplex_rho",
       "kappa_init", "kappa_loop", "Gamma_jacad", "boundary", "build" >>

HmmOrder ==
    << "check_square", "check_consistent_size_Gamma", "check_simplex_Gamma",
       "check_consistent_size_rho", "check_simplex_rho", "ops_partials",
       "forward_init", "forward_loop", "forward_return",
       "kappa_init", "kappa_loop", "Gamma_jacad", "boundary", "build" >>

\* the statement after statement s ("done" after the last)
After(s) ==
    LET i == CHOOSE k \in 1..Len(HmmOrder) : HmmOrder[k] = s
    IN  IF i = Len(HmmOrder) THEN "done" ELSE HmmOrder[i + 1]

At(s) == hmm_pc = s

\* the next statement; n is the start value of its loop counter, if any
Goto(s, n) ==
    /\ hmm_pc' = s
    /\ hmm_n' = n

\* a check that fails ends the call
Throw(e) ==
    /\ hmm_err' = e
    /\ hmm_pc' = "error"
    /\ UNCHANGED <<hmm_in, hmm_n, hmm_loc, ops_partials, hmm_ret, fwd_steps,
                   touched>>

\* a check that passes
Pass(s) ==
    /\ Goto(After(s), 0)
    /\ UNCHANGED <<hmm_in, hmm_loc, ops_partials, hmm_err, hmm_ret, fwd_steps,
                   touched>>

\* check_square("hmm_marginal_lpdf", "Gamma", Gamma);
hmm_check_square ==
    /\ At("check_square")
    /\ IF is_square(hmm_in.Gamma) THEN Pass("check_square")
       ELSE Throw(Exc("domain_error", "hmm_marginal_lpdf", "Gamma"))
    /\ UNCHANGED <<adVars, clVars, ocVars, errVars, mmVars>>

\* check_consistent_size("hmm_marginal_lpdf", "Gamma", row(Gamma, 1), n_states);
hmm_check_consistent_size_Gamma ==
    /\ At("check_consistent_size_Gamma")
    /\ IF is_consistent_size(row(hmm_in.Gamma, 1), n_states(hmm_in))
       THEN Pass("check_consistent_size_Gamma")
       ELSE Throw(Exc("invalid_argument", "hmm_marginal_lpdf", "Gamma"))
    /\ UNCHANGED <<adVars, clVars, ocVars, errVars, mmVars>>

\* for (i = 0; i < Gamma.cols(); ++i)
\*   check_simplex("hmm_marginal_lpdf", "Gamma[i, ]", col(Gamma_transpose, i + 1));
hmm_check_simplex_Gamma ==
    /\ At("check_simplex_Gamma")
    /\ IF hmm_n < hmm_in.Gamma.cols
       THEN IF is_simplex(col(transpose(hmm_in.Gamma), hmm_n + 1))
            THEN /\ hmm_n' = hmm_n + 1
                 /\ UNCHANGED <<hmm_in, hmm_pc, hmm_loc, ops_partials, hmm_err,
                                hmm_ret, fwd_steps, touched>>
            ELSE Throw(Exc("domain_error", "hmm_marginal_lpdf", "Gamma[i, ]"))
       ELSE Pass("check_simplex_Gamma")
    /\ UNCHANGED <<adVars, clVars, ocVars, errVars, mmVars>>

\* check_consistent_size("hmm_marginal_lpdf", "rho", rho, n_states);
hmm_check_consistent_size_rho ==
    /\ At("check_consistent_size_rho")
    /\ IF is_consistent_size(hmm_in.rho, n_states(hmm_in))
       THEN Pass("check_consistent_size_rho")
       ELSE Throw(Exc("invalid_argument", "hmm_marginal_lpdf", "rho"))
    /\ UNCHANGED <<adVars, clVars, ocVars, errVars, mmVars>>

\* check_simplex("hmm_marginal_lpdf", "rho", rho);
hmm_check_simplex_rho ==
    /\ At("check_simplex_rho")
    /\ IF is_simplex(hmm_in.rho) THEN Pass("check_simplex_rho")
       ELSE Throw(Exc("domain_error", "hmm_marginal_lpdf", "rho"))
    /\ UNCHANGED <<adVars, clVars, ocVars, errVars, mmVars>>

\* operands_and_partials<...> ops_partials(log_omegas, Gamma, rho);
hmm_ops_partials ==
    /\ At("ops_partials")
    /\ ops_partials' = operands_and_partials(hmm_in)
    /\ Goto(After("ops_partials"), 0)
    /\ UNCHANGED <<hmm_in, hmm_loc, hmm_err, hmm_ret, fwd_steps, touched>>
    /\ UNCHANGED <<adVars, clVars, ocVars, errVars, mmVars>>

\* an access to element (or column) i, counted from 0, of a local buffer
Touch(buf, i) == <<buf, i>>

\* omegas = log_omegas.array().exp();
exp_matrix(lo) ==
    Matrix(lo.rows, lo.cols,
           [i \in 1..lo.rows, j \in 1..lo.cols |-> exp(lo.col[j][i])])

\* double norm = v.maxCoeff();
norm_of(v) == maxCoeff(v)

\* alphas.col(0) = omegas.col(0).cwiseProduct(rho); rescaled by its norm
forward_col0(loc, rho) ==
    LET v == cwiseProduct(col(loc.omegas, 1), rho)
        norm == norm_of(v)
    IN  [loc EXCEPT !.alphas = SetCol(@, 1, VecDiv(v, norm)),
                    !.alpha_log_norms[1] = log(norm)]

\* alphas.col(n + 1) = omegas.col(n + 1).cwiseProduct(
\*                         Gamma.transpose() * alphas.col(n)); rescaled
forward_step(loc, n) ==
    LET v == cwiseProduct(col(loc.omegas, n + 2),
                          MatVec(transpose(loc.Gamma_dbl), col(loc.alphas, n + 1)))
        norm == norm_of(v)
    IN  [loc EXCEPT !.alphas = SetCol(@, n + 2, VecDiv(v, norm)),
                    !.alpha_log_norms[n + 2] =
                        LogAdd(log(norm), loc.alpha_log_norms[n + 1])]

\* return log(alphas.col(n_transitions).sum()) + alpha_log_norms(n_transitions);
forward_value(loc, nt) ==
    LogAdd(log(sum(col(loc.alphas, nt + 1))), loc.alpha_log_norms[nt + 1])

\* what a build may do with a column access outside a matrix with no columns
UndefinedValues == {[log |-> NaN], [log |-> Zero], [log |-> One]}

\* the declarations of lines 133-136 and the first statements of the internal
\* forward pass; with no column in log_omegas, alphas.col(0) and omegas.col(0)
\* do not exist and the behaviour is undefined
hmm_forward_init ==
    /\ At("forward_init")
    /\ LET nt == n_transitions(hmm_in)
           decl == [NoLocals EXCEPT
                      !.alphas = UninitMatrix(n_states(hmm_in), nt + 1),
                      !.alpha_log_norms = UninitLogs(nt + 1),
                      !.Gamma_dbl = hmm_in.Gamma,
                      !.omegas = exp_matrix(hmm_in.log_omegas)]
       IN  /\ touched' = touched \cup {Touch("omegas", 0), Touch("alphas", 0),
                                       Touch("alpha_log_norms", 0)}
           /\ fwd_steps' = fwd_steps + 1
           /\ IF nt >= 0
              THEN /\ hmm_loc' = forward_col0(decl, hmm_in.rho)
                   /\ Goto(After("forward_init"), 0)
                   /\ UNCHANGED hmm_ret
              ELSE /\ hmm_loc' = decl
                   /\ \/ /\ Goto("abort", 0)
                         /\ UNCHANGED hmm_ret
                      \/ /\ Goto("done", 0)
                         /\ \E v \in UndefinedValues :
                               hmm_ret' = [value |-> v, partials |-> ops_partials]
    /\ UNCHANGED <<hmm_in, ops_partials, hmm_err>>
    /\ UNCHANGED <<adVars, clVars, ocVars, errVars, mmVars>>

\* for (int n = 0; n < n_transitions; ++n) { ... }
hmm_forward_loop ==
    /\ At("forward_loop")
    /\ IF hmm_n < n_transitions(hmm_in)
       THEN /\ hmm_loc' = forward_step(hmm_loc, hmm_n)
            /\ hmm_n' = hmm_n + 1
            /\ fwd_steps' = fwd_steps + 1
            /\ touched' = touched \cup
                   {Touch("omegas", hmm_n + 1), Touch("alphas", hmm_n),
                    Touch("alphas", hmm_n + 1), Touch("alpha_log_norms", hmm_n),
                    Touch("alpha_log_norms", hmm_n + 1)}
            /\ UNCHANGED hmm_pc
       ELSE /\ Goto(After("forward_loop"), 0)
            /\ UNCHANGED <<hmm_loc, fwd_steps, touched>>
    /\ UNCHANGED <<hmm_in, ops_partials, hmm_err, hmm_ret>>
    /\ UNCHANGED <<adVars, clVars, ocVars, errVars, mmVars>>

\* the return of the internal forward pass, and lines 143-144:
\* norm_norm = alpha_log_norms(n_transitions);
\* unnormed_marginal = alphas.col(n_transitions).sum();
hmm_forward_return ==
    /\ At("forward_return")
    /\ LET nt == n_transitions(hmm_in)
       IN  /\ hmm_loc' = [hmm_loc EXCEPT
                  !.log_marginal_density = forward_value(hmm_loc, nt),
                  !.norm_norm = hmm_loc.alpha_log_norms[nt + 1],
                  !.unnormed_marginal = sum(col(hmm_loc.alphas, nt + 1))]
           /\ touched' = touched \cup
                  {Touch("alphas", nt), Touch("alpha_log_norms", nt)}
    /\ Goto(After("forward_return"), 0)
    /\ UNCHANGED <<hmm_in, ops_partials, hmm_err, hmm_ret, fwd_steps>>
    /\ UNCHANGED <<adVars, clVars, ocVars, errVars, mmVars>>

\* the step with kappa[n] divided by its sum instead of its maximum
kappa_step_norm_sum(loc, n) ==
    LET v == MatVec(loc.Gamma_dbl,
                    cwiseProduct(col(loc.omegas, n + 3), loc.kappa[n + 2]))
        norm == sum(v)
        kln == LogAdd(log(norm), loc.kappa_log_norms[n + 2])
    IN  [loc EXCEPT !.kappa[n + 1] = VecDiv(v, norm),
                    !.kappa_log_norms[n + 1] = kln,
                    !.grad_corr[n + 1] =
                        exp(LogSub(LogAdd(loc.alpha_log_norms[n + 1], kln),
                                   loc.norm_norm))]

\* kappa[n] = Gamma_dbl * (omegas.col(n + 2).cwiseProduct(kappa[n + 1]));
\* rescaled by its norm; then grad_corr[n]
kappa_step(loc, n) ==
    LET v == MatVec(loc.Gamma_dbl,
                    cwiseProduct(col(loc.omegas, n + 3), loc.kappa[n + 2]))
        norm == norm_of(v)
        kln == LogAdd(log(norm), loc.kappa_log_norms[n + 2])
    IN  [loc EXCEPT !.kappa[n + 1] = VecDiv(v, norm),
                    !.kappa_log_norms[n + 1] = kln,
                    !.grad_corr[n + 1] =
                        exp(LogSub(LogAdd(loc.alpha_log_norms[n + 1], kln),
                                   loc.norm_norm))]

\* lines 146-155: the declarations of kappa, kappa_log_norms and grad_corr,
\* and their last elements when there is a transition
hmm_kappa_init ==
    /\ At("kappa_init")
    /\ LET nt == n_transitions(hmm_in)
           decl == [hmm_loc EXCEPT
                      !.kappa = [i \in 1..nt |-> UninitVector(n_states(hmm_in))],
                      !.kappa_log_norms = UninitLogs(nt),
                      !.grad_corr = UninitVector(nt)]
       IN  IF nt > 0
           THEN /\ hmm_loc' = [decl EXCEPT
                      !.kappa[nt] = [i \in 1..n_states(hmm_in) |-> One],
                      !.kappa_log_norms[nt] = LogZero,
                      !.grad_corr[nt] =
                          exp(LogSub(decl.alpha_log_norms[nt], decl.norm_norm))]
                /\ touched' = touched \cup
                       {Touch("kappa", nt - 1), Touch("kappa_log_norms", nt - 1),
                        Touch("grad_corr", nt - 1),
                        Touch("alpha_log_norms", nt - 1)}
           ELSE /\ hmm_loc' = decl
                /\ UNCHANGED touched
    /\ Goto(After("kappa_init"), n_transitions(hmm_in) - 2)
    /\ UNCHANGED <<hmm_in, ops_partials, hmm_err, hmm_ret, fwd_steps>>
    /\ UNCHANGED <<adVars, clVars, ocVars, errVars, mmVars>>

\* for (int n = n_transitions - 2; n >= 0; --n) { ... }
hmm_kappa_loop ==
    /\ At("kappa_loop")
    /\ IF hmm_n >= 0
       THEN /\ hmm_loc' = kappa_step(hmm_loc, hmm_n)
            /\ hmm_n' = hmm_n - 1
            /\ touched' = touched \cup
                   {Touch("kappa", hmm_n), Touch("kappa", hmm_n + 1),
                    Touch("omegas", hmm_n + 2),
                    Touch("kappa_log_norms", hmm_n),
                    Touch("kappa_log_norms", hmm_n + 1),
                    Touch("grad_corr", hmm_n), Touch("alpha_log_norms", hmm_n)}
            /\ UNCHANGED hmm_pc
       ELSE /\ Goto(After("kappa_loop"), 0)
            /\ UNCHANGED <<hmm_loc, touched>>
    /\ UNCHANGED <<hmm_in, ops_partials, hmm_err, hmm_ret, fwd_steps>>
    /\ UNCHANGED <<adVars, clVars, ocVars, errVars, mmVars>>

\* for (n = n_transitions - 1; n >= 0; --n)
\*   Gamma_jacad += (grad_corr[n] * kappa[n].cwiseProduct(omegas.col(n + 1))
\*                   * alphas.col(n).transpose()).transpose();
RECURSIVE Gamma_jacad_from(_, _, _)
Gamma_jacad_from(loc, n, acc) ==
    IF n < 0 THEN acc
    ELSE Gamma_jacad_from(loc, n - 1,
            MatAdd(acc,
                   transpose(Outer(VecScale(loc.grad_corr[n + 1],
                                       cwiseProduct(loc.kappa[n + 1],
                                                    col(loc.omegas, n + 2))),
                                   col(loc.alphas, n + 1)))))

\* lines 168-176: Gamma_jacad, divided by unnormed_marginal
Gamma_jacad(loc, n, nt) ==
    MatDiv(Gamma_jacad_from(loc, nt - 1, ZeroMatrix(n, n)),
           loc.unnormed_marginal)

\* the elements the loops over n = n_transitions - 1 .. 0 use
LoopTouches(nt, bufs) ==
    {Touch(b[1], k + b[2]) : b \in bufs, k \in 0..(nt - 1)}

\* if (!is_constant_all<T_Gamma>::value) { ... edge2_.partials_ = Gamma_jacad; }
hmm_Gamma_jacad ==
    /\ At("Gamma_jacad")
    /\ IF ~hmm_in.is_constant.Gamma
       THEN /\ ops_partials' = [ops_partials EXCEPT !.edge2 =
                    Gamma_jacad(hmm_loc, n_states(hmm_in), n_transitions(hmm_in))]
            /\ touched' = touched \cup
                   LoopTouches(n_transitions(hmm_in),
                               {<<"grad_corr", 0>>, <<"kappa", 0>>,
                                <<"omegas", 1>>, <<"alphas", 0>>})
       ELSE UNCHANGED <<ops_partials, touched>>
    /\ Goto(After("Gamma_jacad"), 0)
    /\ UNCHANGED <<hmm_in, hmm_loc, hmm_err, hmm_ret, fwd_steps>>
    /\ UNCHANGED <<adVars, clVars, ocVars, errVars, mmVars>>

\* lines 188-193: log_omega_jacad.col(n + 1) for n = n_transitions - 1 .. 0
RECURSIVE log_omega_jacad_from(_, _, _)
log_omega_jacad_from(loc, n, acc) ==
    IF n < 0 THEN acc
    ELSE log_omega_jacad_from(loc, n - 1,
            SetCol(acc, n + 2,
                   VecScale(loc.grad_corr[n + 1],
                       cwiseProduct(loc.kappa[n + 1],
                           MatVec(transpose(loc.Gamma_dbl),
                                  col(loc.alphas, n + 1))))))

\* log_omega_jacad before the boundary terms
log_omega_jacad_init(loc, a) ==
    LET zero == ZeroMatrix(n_states(a), n_transitions(a) + 1)
    IN  IF ~a.is_constant.omega
        THEN log_omega_jacad_from(loc, n_transitions(a) - 1, zero)
        ELSE zero

\* a vector as a matrix with one column
AsColumn(v) == Matrix(Len(v), 1, [i \in 1..Len(v), j \in 1..1 |-> v[i]])

\* lines 196-206: the boundary terms with a single column of log_omegas
boundary_no_transition(ops, loc, a) ==
    LET denom == exp(loc.log_marginal_density)
        jacad == SetCol(log_omega_jacad_init(loc, a), 1,
                        VecDiv(cwiseProduct(col(loc.omegas, 1), a.rho), denom))
    IN  [ops EXCEPT
           !.edge1 = IF ~a.is_constant.omega THEN jacad ELSE @,
           !.edge3 = IF ~a.is_constant.rho
                     THEN AsColumn(VecDiv(col(loc.omegas, 1), denom)) ELSE @]

\* lines 207-223: the boundary terms when there is a transition
boundary_transitions(ops, loc, a) ==
    LET grad_corr_boundary == exp(LogSub(loc.kappa_log_norms[1], loc.norm_norm))
        c == MatVec(loc.Gamma_dbl, cwiseProduct(col(loc.omegas, 2), loc.kappa[1]))
        jacad == SetCol(log_omega_jacad_init(loc, a), 1,
                        VecScale(grad_corr_boundary, cwiseProduct(c, a.rho)))
    IN  [ops EXCEPT
           !.edge1 = IF ~a.is_constant.omega
                     THEN MatCwiseProduct(jacad,
                              MatDiv(loc.omegas, loc.unnormed_marginal))
                     ELSE @,
           !.edge3 = IF ~a.is_constant.rho
                     THEN AsColumn(VecDiv(VecScale(grad_corr_boundary,
                                       cwiseProduct(c, col(loc.omegas, 1))),
                                          loc.unnormed_marginal))
                     ELSE @]

\* lines 180-224: the partials of log_omegas and rho
hmm_boundary ==
    /\ At("boundary")
    /\ LET nt == n_transitions(hmm_in)
           k == hmm_in.is_constant
       IN  IF ~k.omega \/ ~k.rho
           THEN IF nt = 0
                THEN /\ ops_partials' =
                           boundary_no_transition(ops_partials, hmm_loc, hmm_in)
                     /\ touched' = touched \cup {Touch("omegas", 0)}
                ELSE /\ ops_partials' =
                           boundary_transitions(ops_partials, hmm_loc, hmm_in)
                     /\ touched' = touched \cup
                            {Touch("kappa_log_norms", 0), Touch("kappa", 0),
                             Touch("omegas", 1), Touch("omegas", 0)} \cup
                            (IF ~k.omega
                             THEN LoopTouches(nt, {<<"grad_corr", 0>>,
                                      <<"kappa", 0>>, <<"alphas", 0>>})
                             ELSE {})
           ELSE UNCHANGED <<ops_partials, touched>>
    /\ Goto(After("boundary"), 0)
    /\ UNCHANGED <<hmm_in, hmm_loc, hmm_err, hmm_ret, fwd_steps>>
    /\ UNCHANGED <<adVars, clVars, ocVars, errVars, mmVars>>

\* return ops_partials.build(log_marginal_density);
hmm_build ==
    /\ At("build")
    /\ hmm_ret' = [value |-> hmm_loc.log_marginal_density,
                   partials |-> ops_partials]
    /\ Goto(After("build"), 0)
    /\ UNCHANGED <<hmm_in, hmm_loc, ops_partials, hmm_err, fwd_steps, touched>>
    /\ UNCHANGED <<adVars, clVars, ocVars, errVars, mmVars>>

NoResult == [value |-> [log |-> Uninit], partials |-> NoPartials]

\* the HMM variables when no call is in progress
HmmIdle ==
    /\ hmm_in = Args(UninitMatrix(0, 0), UninitMatrix(0, 0), <<>>,
                     [omega |-> TRUE, Gamma |-> TRUE, rho |-> TRUE])
    /\ hmm_pc = "done"
    /\ hmm_n = 0
    /\ hmm_loc = NoLocals
    /\ ops_partials = NoPartials
    /\ hmm_err = NoExc
    /\ hmm_ret = NoResult
    /\ fwd_steps = 0
    /\ touched = {}

\* a call of hmm_marginal_lpdf with any of the arguments above
HmmInit ==
    /\ hmm_in \in ArgsValid \cup ArgsInvalid
    /\ hmm_pc = HmmOrder[1]
    /\ hmm_n = 0
    /\ hmm_loc = NoLocals
    /\ ops_partials = NoPartials
    /\ hmm_err = NoExc
    /\ hmm_ret = NoResult
    /\ fwd_steps = 0
    /\ touched = {}

NextHmm ==
    \/ hmm_check_square
    \/ hmm_check_consistent_size_Gamma
    \/ hmm_check_simplex_Gamma
    \/ hmm_check_consistent_size_rho
    \/ hmm_check_simplex_rho
    \/ hmm_ops_partials
    \/ hmm_forward_init
    \/ hmm_forward_loop
    \/ hmm_forward_return
    \/ hmm_kappa_init
    \/ hmm_kappa_loop
    \/ hmm_Gamma_jacad
    \/ hmm_boundary
    \/ hmm_build

-----------------------------------------------------------------------------
(* Properties of hmm_marginal_lpdf.                                        *)

\* the statements that check the arguments
CheckStatements ==
    {"check_square", "check_consistent_size_Gamma", "check_simplex_Gamma",
     "check_consistent_size_rho", "check_simplex_rho"}

\* C4: every precondition check of hmm_marginal_lpdf comes before the
\* forward pass and before any partials or buffer is created: once a forward
\* column has been computed, or ops_partials or a local buffer exists, all
\* five preconditions hold; a call that ended in an error has computed no
\* forward column and created nothing; and a call whose arguments violate a
\* precondition is still in the checks or has ended in an error.
C4_ChecksFirst ==
    /\ (fwd_steps > 0 \/ ops_partials.created \/ hmm_loc # NoLocals)
          => Preconditions(hmm_in)
    /\ hmm_pc = "error"
          => /\ hmm_err.type # "none"
             /\ fwd_steps = 0
             /\ ~ops_partials.created
             /\ hmm_loc = NoLocals
             /\ hmm_ret = NoResult
             /\ ~Preconditions(hmm_in)
    /\ ~Preconditions(hmm_in) => hmm_pc \in CheckStatements \cup {"error"}

\* a call with a Gamma row summing to 3/2, and Gamma carrying derivatives,
\* has ended in the error of the row check
C4_Witness ==
    /\ hmm_pc = "error"
    /\ hmm_err = Exc("domain_error", "hmm_marginal_lpdf", "Gamma[i, ]")
    /\ ~hmm_in.is_constant.Gamma
    /\ \E r \in 1..hmm_in.Gamma.rows : sum(row(hmm_in.Gamma, r)) = <<3, 2>>
    /\ fwd_steps = 0

\* the first row of G that is not a simplex (0: every row is one)
FirstBadRow(G) ==
    IF \A r \in 1..G.rows : is_simplex(row(G, r)) THEN 0
    ELSE CHOOSE r \in 1..G.rows :
            /\ ~is_simplex(row(G, r))
            /\ \A q \in 1..(r - 1) : is_simplex(row(G, q))

Digits == <<"0", "1", "2", "3", "4", "5", "6", "7", "8", "9">>

\* the names that tell which row of Gamma is meant: row r counted from 1,
\* which is row r - 1 counted from 0
RowNames(r) ==
    { "Gamma[" \o Digits[r + 1] \o ", ]", "Gamma[" \o Digits[r] \o ", ]" }

\* the call failed in the loop over the rows of Gamma
RowCheckFailed ==
    /\ hmm_pc = "error"
    /\ is_square(hmm_in.Gamma)
    /\ hmm_in.Gamma.cols = n_states(hmm_in)
    /\ FirstBadRow(hmm_in.Gamma) # 0

\* C5: the error of a violated precondition names the argument that failed
\* (Gamma when a check of Gamma fails, else rho) and, when a row of Gamma is
\* not a simplex, the index of that row.
C5_ErrorNamesRow ==
    /\ hmm_pc = "error" =>
          IF GammaPreconditions(hmm_in) THEN hmm_err.arg = "rho"
          ELSE hmm_err.arg # "rho"
    /\ RowCheckFailed => hmm_err.arg \in RowNames(FirstBadRow(hmm_in.Gamma))

\* the name the error carries tells Gamma from rho, but is the same for
\* every row of Gamma
C5_ErrorNamesArgument ==
    hmm_pc = "error" =>
        IF GammaPreconditions(hmm_in) THEN hmm_err.arg = "rho"
        ELSE hmm_err.arg \in {"Gamma", "Gamma[i, ]"}

\* the sum, over the state sequences that continue one ending in state prev
\* before column k, of the product of their transition and observation terms
RECURSIVE PathTail(_, _, _)
PathTail(a, k, prev) ==
    IF k > a.log_omegas.cols THEN One
    ELSE sum([x \in 1..n_states(a) |->
                Mul(Mul(a.Gamma.col[x][prev], exp(a.log_omegas.col[k][x])),
                    PathTail(a, k + 1, x))])

\* the sum over all state sequences x_0 .. x_N of
\* rho[x_0] * prod_n omega[x_n, n] * prod_{n >= 1} Gamma[x_{n-1}, x_n]
PathSum(a) ==
    sum([x \in 1..n_states(a) |->
            Mul(Mul(a.rho[x], exp(a.log_omegas.col[1][x])), PathTail(a, 2, x))])

\* the forward pass has returned
ForwardReturned == hmm_loc.log_marginal_density # [log |-> Uninit]

\* C9: for every input that passes the preconditions (and has a column, so
\* that the sum over state sequences is defined), the value of the forward
\* pass is the logarithm of the path-enumeration sum, as the value of the
\* local log_marginal_density and as the value the call returns.
C9_ForwardValue ==
    /\ (ForwardReturned /\ n_transitions(hmm_in) >= 0)
          => hmm_loc.log_marginal_density = log(PathSum(hmm_in))
    /\ (hmm_pc = "done" /\ n_transitions(hmm_in) >= 0)
          => hmm_ret.value = log(PathSum(hmm_in))

\* what the code does instead: the value is the logarithm of the path sum
\* unless that sum is 0, and then it is NaN, not -infinity
C9_ForwardValueOrNaN ==
    (ForwardReturned /\ n_transitions(hmm_in) >= 0)
        => IF PathSum(hmm_in) = Zero
           THEN hmm_loc.log_marginal_density = [log |-> NaN]
           ELSE hmm_loc.log_marginal_density = log(PathSum(hmm_in))

\* the closed forms of the partials for a single column of log_omegas
ClosedFormOmega(a) ==
    LET w == cwiseProduct(col(exp_matrix(a.log_omegas), 1), a.rho)
    IN  AsColumn(VecDiv(w, sum(w)))

ClosedFormRho(a) ==
    LET w == cwiseProduct(col(exp_matrix(a.log_omegas), 1), a.rho)
    IN  AsColumn(VecDiv(col(exp_matrix(a.log_omegas), 1), sum(w)))

KappaBuffers == {"kappa", "kappa_log_norms", "grad_corr"}

\* C10: with exactly one column in log_omegas no element of kappa,
\* kappa_log_norms or grad_corr is read or written, and the partials the
\* call returns are omega[:,0] (*) rho / sum(omega[:,0] (*) rho) for column 0
\* of log_omegas, omega[:,0] / sum(omega[:,0] (*) rho) for rho, and the
\* all-zero matrix for Gamma (each for an operand that carries derivatives).
C10_SingleColumn ==
    n_transitions(hmm_in) = 0 =>
        /\ \A t \in touched : t[1] \notin KappaBuffers
        /\ hmm_pc = "done" =>
              /\ ~hmm_in.is_constant.omega =>
                    hmm_ret.partials.edge1 = ClosedFormOmega(hmm_in)
              /\ ~hmm_in.is_constant.rho =>
                    hmm_ret.partials.edge3 = ClosedFormRho(hmm_in)
              /\ ~hmm_in.is_constant.Gamma =>
                    hmm_ret.partials.edge2 =
                        ZeroMatrix(n_states(hmm_in), n_states(hmm_in))

\* what the code does with a single column: the claim's partials unless
\* omega[:,0] (*) rho is all zero
C10_SingleColumnNonzero ==
    (n_transitions(hmm_in) = 0 /\ PathSum(hmm_in) # Zero) => C10_SingleColumn

\* column n (0-based) of alphas as the forward pass computes it before the
\* rescaling, from the rescaled column n - 1
UnnormedColumn(n) ==
    IF n = 0
    THEN cwiseProduct(col(hmm_loc.omegas, 1), hmm_in.rho)
    ELSE cwiseProduct(col(hmm_loc.omegas, n + 1),
                      MatVec(transpose(hmm_in.Gamma), col(hmm_loc.alphas, n)))

\* the sum of log(norm_k) over the steps k <= n, norm_k the largest
\* coefficient of the unscaled column k
RECURSIVE LogNormSum(_)
LogNormSum(n) ==
    IF n = 0 THEN log(maxCoeff(UnnormedColumn(0)))
    ELSE LogAdd(log(maxCoeff(UnnormedColumn(n))), LogNormSum(n - 1))

\* the forward pass has processed step n
StepProcessed(n) == fwd_steps > n

\* C20: once the forward pass has processed step n, column n of alphas has
\* been divided by its own largest coefficient, so that its largest entry
\* is exactly 1, and alpha_log_norms[n] is the sum of log(norm_k) over the
\* steps k <= n.
C20_Rescaled ==
    \A n \in 0..n_transitions(hmm_in) :
        StepProcessed(n) =>
            /\ col(hmm_loc.alphas, n + 1) =
                   VecDiv(UnnormedColumn(n), maxCoeff(UnnormedColumn(n)))
            /\ maxCoeff(col(hmm_loc.alphas, n + 1)) = One
            /\ hmm_loc.alpha_log_norms[n + 1] = LogNormSum(n)

\* what holds instead: the division and the running sum are as stated, and
\* the largest entry is 1 whenever the largest coefficient of the unscaled
\* column is positive and finite
C20_RescaledNonzero ==
    \A n \in 0..n_transitions(hmm_in) :
        StepProcessed(n) =>
            /\ col(hmm_loc.alphas, n + 1) =
                   VecDiv(UnnormedColumn(n), maxCoeff(UnnormedColumn(n)))
            /\ (/\ Gt(maxCoeff(UnnormedColumn(n)), Zero)
                /\ maxCoeff(UnnormedColumn(n)) # PosInf) =>
                   maxCoeff(col(hmm_loc.alphas, n + 1)) = One
            /\ hmm_loc.alpha_log_norms[n + 1] = LogNormSum(n)

\* kappa, kappa_log_norms and grad_corr have been declared
KappaDeclared ==
    /\ hmm_pc \in {"kappa_loop", "Gamma_jacad", "boundary", "build", "done"}
    /\ Len(hmm_loc.kappa) = n_transitions(hmm_in)

\* kappa[n] (0-based) has been assigned
KappaSet(n) == hmm_loc.kappa[n + 1] # UninitVector(n_states(hmm_in))

\* kappa[n] before its rescaling, from the rescaled kappa[n + 1]
UnnormedKappa(n) ==
    MatVec(hmm_in.Gamma,
           cwiseProduct(col(hmm_loc.omegas, n + 3), hmm_loc.kappa[n + 2]))

\* C21: with n_transitions >= 1, kappa is computed from the last index down
\* to 0: kappa[last] is all ones with kappa_log_norms[last] = 0, kappa[n] is
\* assigned only after kappa[n+1], divided by its own largest coefficient,
\* with kappa_log_norms[n] = log(norm_n) + kappa_log_norms[n+1]; and
\* grad_corr[n] = exp(alpha_log_norms[n] + kappa_log_norms[n]
\*                    - alpha_log_norms[n_transitions]) for every n.
C21_KappaRecursion ==
    LET nt == n_transitions(hmm_in)
        last == nt - 1
    IN  (nt >= 1 /\ KappaDeclared) =>
            /\ KappaSet(last)
            /\ hmm_pc # "kappa_loop" => \A n \in 0..last : KappaSet(n)
            /\ \A n \in 0..last : KappaSet(n) =>
                  /\ IF n = last
                     THEN /\ hmm_loc.kappa[n + 1] =
                                 [i \in 1..n_states(hmm_in) |-> One]
                          /\ hmm_loc.kappa_log_norms[n + 1] = log(One)
                     ELSE /\ KappaSet(n + 1)
                          /\ hmm_loc.kappa[n + 1] =
                                 VecDiv(UnnormedKappa(n),
                                        maxCoeff(UnnormedKappa(n)))
                          /\ hmm_loc.kappa_log_norms[n + 1] =
                                 LogAdd(log(maxCoeff(UnnormedKappa(n))),
                                        hmm_loc.kappa_log_norms[n + 2])
                  /\ hmm_loc.grad_corr[n + 1] =
                         exp(LogSub(LogAdd(hmm_loc.alpha_log_norms[n + 1],
                                           hmm_loc.kappa_log_norms[n + 1]),
                                    hmm_loc.alpha_log_norms[nt + 1]))

\* the recursion has run for two transitions or more and kappa[0] was
\* rescaled by a largest coefficient other than 1, its sum differing from it
C21_Witness ==
    /\ n_transitions(hmm_in) >= 2
    /\ KappaDeclared
    /\ hmm_pc = "Gamma_jacad"
    /\ KappaSet(0)
    /\ maxCoeff(UnnormedKappa(0)) \notin {Zero, One, NaN}
    /\ sum(UnnormedKappa(0)) # maxCoeff(UnnormedKappa(0))
    /\ ~isnan(hmm_loc.grad_corr[1])

\* the number of columns, or of elements, each buffer is declared with
Allocated(buf) ==
    IF buf \in {"alphas", "alpha_log_norms"}
    THEN n_transitions(hmm_in) + 1
    ELSE IF buf = "omegas" THEN hmm_in.log_omegas.cols
    ELSE n_transitions(hmm_in)

\* every index used so far is inside its buffer
TouchedInBounds ==
    \A t \in touched : 0 <= t[2] /\ t[2] < Allocated(t[1])

\* C26: for every input that passes the precondition checks, log_omegas
\* with no column included, every column or element index used on alphas,
\* alpha_log_norms, omegas, kappa, kappa_log_norms and grad_corr in the
\* forward pass and the adjoint computation is inside the buffer.
C26_IndicesInBounds == TouchedInBounds

\* what holds instead: the indices are inside the buffers when log_omegas
\* has at least one column
C26_InBoundsWithColumn == hmm_in.log_omegas.cols >= 1 => TouchedInBounds

\* a call with two transitions and no constant operand has used every
\* buffer and is about to return
C26_WitnessAllBuffers ==
    /\ hmm_pc = "build"
    /\ n_transitions(hmm_in) = 2
    /\ {t[1] : t \in touched}
           = KappaBuffers \cup {"alphas", "alpha_log_norms", "omegas"}
    /\ Touch("omegas", 2) \in touched
    /\ Touch("kappa", 1) \in touched

-----------------------------------------------------------------------------
(***************************************************************************)
(* ordered_constrain_op (rev/mat/fun/ordered_constrain.hpp): the forward   *)
(* pass operator() and the adjoint pass multiply_adjoint_jacobian, one     *)
(* loop iteration per step.                                                *)
(*                                                                         *)
(* Indices are the code's (0-based).  x[0] is used as it is and is a       *)
(* double <<n, d>>; x[n] for n >= 1 is used only through exp(x[n]) and is  *)
(* kept as a logarithm [log |-> v], so that exp(x[n]) is v exactly.        *)
(***************************************************************************)

MaxOrdLen == 3      \* largest size of the free vector x

\* the values x[0] takes
OrdFirst == {Zero, One, <<-1, 1>>}

\* the values x[n], n >= 1, takes: -infinity, 0, log 2, +infinity
OrdRest == {log(Zero), log(One), log(<<2, 1>>), log(PosInf)}

\* the values an output adjoint takes
OrdAdj == {Zero, One, <<-1, 1>>}

\* x(n), adj(n), y[n]: the coefficient n of an Eigen vector
Coeff(v, n) == v[n + 1]

SetCoeff(v, n, val) == [v EXCEPT ![n + 1] = val]

\* the free vectors of size len
OrdVectors(len) ==
    IF len = 0 THEN {<<>>}
    ELSE {<<f>> \o r : f \in OrdFirst, r \in [1..(len - 1) -> OrdRest]}

OrdInputs ==
    UNION {[x : OrdVectors(len), adj : [1..len -> OrdAdj]] :
               len \in 0..MaxOrdLen}

\* ChainableStack::instance().memalloc_.alloc_array<double>(n)
alloc_array(ar, n) == Append(ar, UninitVector(n))

\* the position in exp_x_ of the exponential of x[n]
exp_x_index_n(n) == n

exp_x_index(n) == n - 1

\* exp_x_[i]: an element of the array the pointer exp_x_ designates
exp_x_read(ar, p, i) ==
    IF p \in 1..Len(ar) /\ i \in 0..(Len(ar[p]) - 1) THEN ar[p][i + 1]
    ELSE Uninit

\* exp_x_[i] = v
exp_x_write(ar, p, i, v) ==
    IF p \in 1..Len(ar) /\ i \in 0..(Len(ar[p]) - 1)
    THEN [ar EXCEPT ![p][i + 1] = v]
    ELSE ar

\* the fields before operator() has run: N_ and exp_x_ are not initialized
ordered_constrain_op == [N_ |-> -1, exp_x_ |-> 0]

NoOrdLocals ==
    [y |-> <<>>, adj_times_jac |-> <<>>, rolling_adjoint_sum |-> Uninit]

\* operator(): lines 27-35, up to the loop
oc_forward ==
    /\ oc_pc = "forward"
    /\ LET N == Len(oc_in.x)
           y == UninitVector(N)
       IN  IF N = 0
           THEN /\ oc_this' = [oc_this EXCEPT !.N_ = N]
                /\ oc_loc' = [oc_loc EXCEPT !.y = y]
                /\ oc_pc' = "adjoint"
                /\ UNCHANGED <<oc_n, oc_arena>>
           ELSE /\ oc_arena' = alloc_array(oc_arena, N - 1)
                /\ oc_this' = [N_ |-> N, exp_x_ |-> Len(oc_arena) + 1]
                /\ oc_loc' = [oc_loc EXCEPT
                                 !.y = SetCoeff(y, 0, Coeff(oc_in.x, 0))]
                /\ oc_n' = 1
                /\ oc_pc' = "forward_loop"
    /\ UNCHANGED <<oc_in, oc_acc>>
    /\ UNCHANGED <<adVars, clVars, hmmVars, errVars, mmVars>>

\* one iteration of the loop of operator(), or its exit and the return
oc_forward_loop ==
    /\ oc_pc = "forward_loop"
    /\ IF oc_n < oc_this.N_
       THEN LET i == exp_x_index(oc_n)
                ar == exp_x_write(oc_arena, oc_this.exp_x_, i,
                                  exp(Coeff(oc_in.x, oc_n)))
                e == exp_x_read(ar, oc_this.exp_x_, i)
            IN  /\ oc_arena' = ar
                /\ oc_acc' = oc_acc \cup {<<"write", i>>, <<"read", i>>}
                /\ oc_loc' = [oc_loc EXCEPT !.y =
                       SetCoeff(@, oc_n, Add(Coeff(@, oc_n - 1), e))]
                /\ oc_n' = oc_n + 1
                /\ UNCHANGED oc_pc
       ELSE /\ oc_pc' = "adjoint"
            /\ UNCHANGED <<oc_n, oc_loc, oc_arena, oc_acc>>
    /\ UNCHANGED <<oc_in, oc_this>>
    /\ UNCHANGED <<adVars, clVars, hmmVars, errVars, mmVars>>

\* lines 56-57 with the sum updated after its use instead of before
rolling_step_stale(rolling, adj_n, e) ==
    [sum |-> Add(rolling, adj_n), term |-> Mul(e, rolling)]

\* lines 56-57: rolling_adjoint_sum += adj(n), then the product with exp_x_
rolling_step(rolling, adj_n, e) ==
    LET s == Add(rolling, adj_n) IN [sum |-> s, term |-> Mul(e, s)]

\* multiply_adjoint_jacobian: lines 51-54, up to the loop
oc_adjoint ==
    /\ oc_pc = "adjoint"
    /\ oc_loc' = [oc_loc EXCEPT
                     !.adj_times_jac = UninitVector(oc_this.N_),
                     !.rolling_adjoint_sum = Zero]
    /\ IF oc_this.N_ > 0
       THEN oc_n' = oc_this.N_ - 1 /\ oc_pc' = "adjoint_loop"
       ELSE oc_pc' = "done" /\ UNCHANGED oc_n
    /\ UNCHANGED <<oc_in, oc_this, oc_arena, oc_acc>>
    /\ UNCHANGED <<adVars, clVars, hmmVars, errVars, mmVars>>

\* one iteration of the loop of multiply_adjoint_jacobian, or its exit with
\* line 59 and the return
oc_adjoint_loop ==
    /\ oc_pc = "adjoint_loop"
    /\ IF oc_n > 0
       THEN LET i == exp_x_index(oc_n)
                r == rolling_step(oc_loc.rolling_adjoint_sum,
                                  Coeff(oc_in.adj, oc_n),
                                  exp_x_read(oc_arena, oc_this.exp_x_, i))
            IN  /\ oc_acc' = oc_acc \cup {<<"adjoint read", i>>}
                /\ oc_loc' = [oc_loc EXCEPT
                       !.rolling_adjoint_sum = r.sum,
                       !.adj_times_jac = SetCoeff(@, oc_n, r.term)]
                /\ oc_n' = oc_n - 1
                /\ UNCHANGED oc_pc
       ELSE /\ oc_loc' = [oc_loc EXCEPT !.adj_times_jac =
                   SetCoeff(@, 0, Add(oc_loc.rolling_adjoint_sum,
                                      Coeff(oc_in.adj, 0)))]
            /\ oc_pc' = "done"
            /\ UNCHANGED <<oc_n, oc_acc>>
    /\ UNCHANGED <<oc_in, oc_this, oc_arena>>
    /\ UNCHANGED <<adVars, clVars, hmmVars, errVars, mmVars>>

\* the variables of ordered_constrain_op when it is not in use
OCIdle ==
    /\ oc_in = [x |-> <<>>, adj |-> <<>>]
    /\ oc_pc = "done"
    /\ oc_n = 0
    /\ oc_this = ordered_constrain_op
    /\ oc_loc = NoOrdLocals
    /\ oc_arena = <<>>
    /\ oc_acc = {}

\* a fresh operator about to be applied to any free vector x; the adjoint
\* pass will receive any output adjoint of the same size
OCInit ==
    /\ oc_in \in OrdInputs
    /\ oc_pc = "forward"
    /\ oc_n = 0
    /\ oc_this = ordered_constrain_op
    /\ oc_loc = NoOrdLocals
    /\ oc_arena = <<>>
    /\ oc_acc = {}

NextOC ==
    \/ oc_forward
    \/ oc_forward_loop
    \/ oc_adjoint
    \/ oc_adjoint_loop

-----------------------------------------------------------------------------
(* Claims about ordered_constrain_op.                                      *)

\* operator() has returned
ForwardDone == oc_pc \in {"adjoint", "adjoint_loop", "done"}

\* multiply_adjoint_jacobian has returned
AdjointDone == oc_pc = "done"

\* the array exp_x_ designates
ExpX == oc_arena[oc_this.exp_x_]

\* C11: for a zero-size x the forward pass returns an empty vector, takes
\* nothing from the arena and writes nothing to it, and the adjoint pass
\* returns an empty vector without reading exp_x_; for a size N >= 1 every
\* index at which either pass reads or writes exp_x_ lies in 0..N-2.
C11_ZeroSizeAndBounds ==
    LET N == Len(oc_in.x)
    IN  /\ (N = 0 /\ ForwardDone) =>
               /\ oc_loc.y = <<>>
               /\ oc_arena = <<>>
               /\ oc_acc = {}
               /\ oc_this.exp_x_ = ordered_constrain_op.exp_x_
        /\ (N = 0 /\ AdjointDone) =>
               /\ oc_loc.adj_times_jac = <<>>
               /\ oc_acc = {}
        /\ N >= 1 => \A a \in oc_acc : a[2] \in 0..(N - 2)
        /\ (N >= 1 /\ oc_pc # "forward") =>
               /\ Len(oc_arena) = 1
               /\ Len(ExpX) = N - 1

\* both passes have returned for a zero-size x
C11_Witness ==
    /\ Len(oc_in.x) = 0
    /\ AdjointDone
    /\ oc_this.N_ = 0

\* both passes have returned for the largest x, having written and read the
\* last element of exp_x_
C11_WitnessBounds ==
    /\ Len(oc_in.x) = MaxOrdLen
    /\ AdjointDone
    /\ {<<"write", MaxOrdLen - 2>>, <<"adjoint read", MaxOrdLen - 2>>}
           \subseteq oc_acc

\* C12: multiply_adjoint_jacobian(adj) is the product of adj with the
\* Jacobian of y[0] = x[0], y[n] = y[n-1] + exp(x[n]): component 0 is the
\* sum of all adj(i), component n > 0 is exp(x[n]) times the sum of the
\* adj(i) with i >= n, and exp_x_ holds the exp(x[n]) of the forward pass.
C12_AdjointJacobian ==
    LET N == Len(oc_in.x)
    IN  (N >= 1 /\ AdjointDone) =>
            /\ Len(oc_loc.adj_times_jac) = N
            /\ Coeff(oc_loc.adj_times_jac, 0) = sum(oc_in.adj)
            /\ \A n \in 1..(N - 1) :
                   /\ Coeff(ExpX, n - 1) = exp(Coeff(oc_in.x, n))
                   /\ Coeff(oc_loc.adj_times_jac, n) =
                          Mul(exp(Coeff(oc_in.x, n)),
                              SumFrom(oc_in.adj, n + 1))

\* the adjoint pass has returned for an x of size 3 or more with two finite
\* non-zero components past the first, the last one differing from adj(n)
C12_Witness ==
    /\ Len(oc_in.x) >= 3
    /\ AdjointDone
    /\ Coeff(oc_in.x, 1) = log(<<2, 1>>)
    /\ Coeff(oc_in.x, 2) = log(<<2, 1>>)
    /\ Coeff(oc_in.adj, 1) = One
    /\ Coeff(oc_in.adj, 2) = One
    /\ Coeff(oc_loc.adj_times_jac, 1) = <<4, 1>>
    /\ Coeff(oc_loc.adj_times_jac, 2) = <<2, 1>>

\* the recurrence the forward pass computes
OrderedRecurrence ==
    LET N == Len(oc_in.x)
    IN  /\ Len(oc_loc.y) = N
        /\ N >= 1 => Coeff(oc_loc.y, 0) = Coeff(oc_in.x, 0)
        /\ \A n \in 1..(N - 1) :
               Coeff(oc_loc.y, n) =
                   Add(Coeff(oc_loc.y, n - 1), exp(Coeff(oc_in.x, n)))

\* C19: the forward pass returns a vector of the size of x with
\* y[0] = x[0] and y[n] = y[n-1] + exp(x[n]), strictly increasing for
\* every x.
C19_StrictlyIncreasing ==
    ForwardDone =>
        /\ OrderedRecurrence
        /\ \A n \in 1..(Len(oc_in.x) - 1) :
               Gt(Coeff(oc_loc.y, n), Coeff(oc_loc.y, n - 1))

\* what holds instead: the recurrence, and y strictly increasing wherever
\* the increment exp(x[n]) is positive and finite
C19_IncreasingWherePositive ==
    ForwardDone =>
        /\ OrderedRecurrence
        /\ \A n \in 1..(Len(oc_in.x) - 1) :
               LET e == exp(Coeff(oc_in.x, n))
               IN  (Gt(e, Zero) /\ e # PosInf /\
                    Coeff(oc_loc.y, n - 1)[2] # 0) =>
                       Gt(Coeff(oc_loc.y, n), Coeff(oc_loc.y, n - 1))

-----------------------------------------------------------------------------
(***************************************************************************)
(* The error-checking functions: check_finite (prim/err/check_finite.hpp), *)
(* is_2F1_converges, check_nonnegative and the matrix finite-check helper  *)
(* check (prim/scal/err/is_2F1_converges.hpp).  One call per behaviour:    *)
(* err_in holds the function and its arguments, the action of the function *)
(* runs its body and leaves in err_out the value it returned or the        *)
(* exception it threw.                                                     *)
(***************************************************************************)

MaxErrLen == 2      \* largest number of elements of a container argument

\* the doubles a checked value or element takes
ErrDoubles == {Zero, One, <<-1, 1>>, PosInf, NegInf, NaN}

\* the values of an unsigned element type
ErrUnsigned == {Zero, One, <<2, 1>>}

\* the doubles an argument of is_2F1_converges takes
F1Doubles == {NaN, <<-2, 1>>, <<-1, 1>>, Zero, <<1, 2>>, One, <<3, 1>>}

\* std::vector-like containers of up to MaxErrLen elements
ErrVectors(elems) == UNION {[1..n -> elems] : n \in 0..MaxErrLen}

\* Eigen matrices of up to MaxErrLen coefficients, in storage order
ErrShapes ==
    {s \in (0..MaxErrLen) \X (0..MaxErrLen) : s[1] * s[2] <= MaxErrLen}

ErrMatrices ==
    UNION {{Mat(s[1], s[2], d) : d \in [1..(s[1] * s[2]) -> ErrDoubles]} :
               s \in ErrShapes}

\* what a call did
Returned(v) == [kind |-> "return", value |-> v]

Thrown(e, n) == [kind |-> "throw", exc |-> e, index |-> n]

\* domain_error(function, name, y, ...): throws std::domain_error
domain_error(function, name) == Thrown(Exc("domain_error", function, name), -1)

\* domain_error_vec(function, name, y, n, ...): the same, naming element n
domain_error_vec(function, name, n) ==
    Thrown(Exc("domain_error", function, name), n)

\* boost::math::isfinite
isfinite(x) == x[2] > 0

\* Eigen's allFinite() on the coefficients d
allFinite(d) == \A i \in 1..Len(d) : isfinite(d[i])

\* ---- check_finite ------------------------------------------------------

\* finite<T_y, false>::check
finite_check(function, name, y) ==
    IF ~isfinite(y) THEN domain_error(function, name)
    ELSE Returned("void")

\* the loop of finite<T_y, true>::check from element n on
RECURSIVE finite_vec_check_from(_, _, _, _)
finite_vec_check_from(function, name, y, n) ==
    IF n < Len(y)
    THEN IF ~isfinite(Coeff(y, n)) THEN domain_error_vec(function, name, n)
         ELSE finite_vec_check_from(function, name, y, n + 1)
    ELSE Returned("void")

\* the loop started at element 1
finite_vec_check_skip_first(function, name, y) ==
    finite_vec_check_from(function, name, y, 1)

\* finite<T_y, true>::check
finite_vec_check(function, name, y) ==
    finite_vec_check_from(function, name, y, 0)

\* finite<Eigen::Matrix<T, R, C>, true>::check
finite_matrix_check(function, name, y) ==
    IF ~allFinite(y.d) THEN finite_vec_check_from(function, name, y.d, 0)
    ELSE Returned("void")

\* check_finite: the specialization the type of y selects
check_finite(function, name, type, y) ==
    CASE type = "scalar" -> finite_check(function, name, y)
      [] type = "vector" -> finite_vec_check(function, name, y)
      [] type = "Eigen" -> finite_matrix_check(function, name, y)

\* ---- check_nonnegative -------------------------------------------------

\* y < 0 in place of !(y >= 0)
not_ge_zero_lt(y) == Gt(Zero, y)

\* !(y >= 0)
not_ge_zero(y) == ~Ge(y, Zero)

\* internal::nonnegative<T_y, false>::check
nonnegative_check(function, name, is_unsigned, y) ==
    IF ~is_unsigned /\ not_ge_zero(y) THEN domain_error(function, name)
    ELSE Returned("void")

\* the loop of internal::nonnegative<T_y, true>::check from element n on
RECURSIVE nonnegative_vec_check_from(_, _, _, _, _)
nonnegative_vec_check_from(function, name, is_unsigned, y, n) ==
    IF n < Len(y)
    THEN IF ~is_unsigned /\ not_ge_zero(Coeff(y, n))
         THEN domain_error_vec(function, name, n)
         ELSE nonnegative_vec_check_from(function, name, is_unsigned, y, n + 1)
    ELSE Returned("void")

\* check_nonnegative: the specialization is_vector_like selects
check_nonnegative(function, name, type, is_unsigned, y) ==
    IF type = "vector"
    THEN nonnegative_vec_check_from(function, name, is_unsigned, y, 0)
    ELSE nonnegative_check(function, name, is_unsigned, y)

\* ---- is_2F1_converges --------------------------------------------------

is_not_nan(x) == ~isnan(x)

fabs(x) == <<Abs(x[1]), x[2]>>

\* std::floor: the largest integer not above x
floor(x) == IF x[2] = 0 THEN x ELSE <<x[1] \div x[2], 1>>

\* x < y as doubles compare
Lt(x, y) == Gt(y, x)

\* is_nonpositive_integer(x): x <= 0.0 && floor(x) == x
is_nonpositive_integer(x) == Ge(Zero, x) /\ floor(x) = x

\* the function with num_terms taken from a2 whenever a2 is a non-positive
\* integer, whatever a1 gave
is_2F1_converges_last_terms(a1, a2, b1, z) ==
    IF ~(is_not_nan(a1) \/ is_not_nan(a2) \/ is_not_nan(b1) \/ is_not_nan(z))
    THEN FALSE
    ELSE LET poly1 == is_nonpositive_integer(a1) /\ Ge(fabs(a1), Zero)
             terms1 == IF poly1 THEN floor(fabs(a1)) ELSE Zero
             poly2 == is_nonpositive_integer(a2)
             is_polynomial == poly1 \/ poly2
             num_terms == IF poly2 THEN floor(fabs(a2)) ELSE terms1
             is_undefined ==
                 is_nonpositive_integer(b1) /\ Ge(num_terms, fabs(b1))
         IN  IF \/ is_undefined
                \/ ~(\/ is_polynomial
                     \/ Lt(fabs(z), One)
                     \/ (fabs(z) = One /\ Gt(b1, Add(a1, a2))))
             THEN FALSE
             ELSE TRUE

\* is_2F1_converges, lines 34-55
is_2F1_converges(a1, a2, b1, z) ==
    IF ~(is_not_nan(a1) \/ is_not_nan(a2) \/ is_not_nan(b1) \/ is_not_nan(z))
    THEN FALSE
    ELSE LET poly1 == is_nonpositive_integer(a1) /\ Ge(fabs(a1), Zero)
             terms1 == IF poly1 THEN floor(fabs(a1)) ELSE Zero
             poly2 == is_nonpositive_integer(a2) /\ Ge(fabs(a2), terms1)
             is_polynomial == poly1 \/ poly2
             num_terms == IF poly2 THEN floor(fabs(a2)) ELSE terms1
             is_undefined ==
                 is_nonpositive_integer(b1) /\ Ge(num_terms, fabs(b1))
         IN  IF \/ is_undefined
                \/ ~(\/ is_polynomial
                     \/ Lt(fabs(z), One)
                     \/ (fabs(z) = One /\ Gt(b1, Add(a1, a2))))
             THEN FALSE
             ELSE TRUE

\* ---- the matrix finite-check helper ------------------------------------

\* control reaches the end of a bool function without a return statement:
\* the behaviour is undefined, the caller gets either value or none
NoReturnStatement == {Returned(TRUE), Returned(FALSE), [kind |-> "abort"]}

\* the helper with a loop that scans every element before it returns true
check_scan_all(y) ==
    IF ~allFinite(y.d) THEN {Returned(FALSE)} ELSE NoReturnStatement

\* check(const Eigen::Matrix<T, R, C>& y), lines 141-149: the outcomes
check(y) ==
    IF ~allFinite(y.d)
    THEN IF 0 < Len(y.d)
         THEN IF ~isfinite(Coeff(y.d, 0)) THEN {Returned(FALSE)}
              ELSE {Returned(TRUE)}
         ELSE NoReturnStatement
    ELSE NoReturnStatement

\* ---- the calls ---------------------------------------------------------

ErrCall(fn) == err_pc = "call" /\ err_in.fn = fn

ErrReturn(o) ==
    /\ err_out' = o
    /\ err_pc' = "done"
    /\ UNCHANGED err_in
    /\ UNCHANGED <<adVars, clVars, hmmVars, ocVars, mmVars>>

err_is_2F1_converges ==
    /\ ErrCall("is_2F1_converges")
    /\ ErrReturn(Returned(is_2F1_converges(err_in.a1, err_in.a2,
                                           err_in.b1, err_in.z)))

err_check_finite ==
    /\ ErrCall("check_finite")
    /\ ErrReturn(check_finite(err_in.function, err_in.name,
                              err_in.type, err_in.y))

err_check ==
    /\ ErrCall("check")
    /\ \E o \in check(err_in.y) : ErrReturn(o)

err_check_nonnegative ==
    /\ ErrCall("check_nonnegative")
    /\ ErrReturn(check_nonnegative(err_in.function, err_in.name, err_in.type,
                                   err_in.is_unsigned, err_in.y))

\* the variables of the error-checking functions when none is called
ErrIdle ==
    /\ err_in = [fn |-> "none"]
    /\ err_pc = "done"
    /\ err_out = [kind |-> "none"]

\* the arguments of a call of check_finite or check_nonnegative
CheckArgs(fn, type, is_unsigned, ys) ==
    [fn : {fn}, function : {"caller"}, name : {"y"}, type : {type},
     is_unsigned : {is_unsigned}, y : ys]

\* a call of any of the functions with any arguments
ErrInit ==
    /\ \/ err_in \in [fn : {"is_2F1_converges"}, a1 : F1Doubles,
                      a2 : F1Doubles, b1 : F1Doubles, z : F1Doubles]
       \/ err_in \in CheckArgs("check_finite", "scalar", FALSE, ErrDoubles)
       \/ err_in \in CheckArgs("check_finite", "vector", FALSE,
                               ErrVectors(ErrDoubles))
       \/ err_in \in CheckArgs("check_finite", "Eigen", FALSE, ErrMatrices)
       \/ err_in \in [fn : {"check"}, y : ErrMatrices]
       \/ err_in \in CheckArgs("check_nonnegative", "scalar", FALSE,
                               ErrDoubles)
       \/ err_in \in CheckArgs("check_nonnegative", "vector", FALSE,
                               ErrVectors(ErrDoubles))
       \/ err_in \in CheckArgs("check_nonnegative", "scalar", TRUE,
                               ErrUnsigned)
       \/ err_in \in CheckArgs("check_nonnegative", "vector", TRUE,
                               ErrVectors(ErrUnsigned))
    /\ err_pc = "call"
    /\ err_out = [kind |-> "none"]

NextErr ==
    \/ err_is_2F1_converges
    \/ err_check_finite
    \/ err_check
    \/ err_check_nonnegative

-----------------------------------------------------------------------------
(* Claims about the error-checking functions.                              *)

\* the call of fn has ended
ErrDone(fn) == err_pc = "done" /\ err_in.fn = fn

\* the elements of the checked argument, in index order
CheckedElements ==
    CASE err_in.type = "scalar" -> <<err_in.y>>
      [] err_in.type = "vector" -> err_in.y
      [] err_in.type = "Eigen" -> err_in.y.d

\* the smallest element of a non-empty set of indices
Lowest(S) == CHOOSE n \in S : \A m \in S : n <= m

\* the call ended as the set bad of offending (0-based) indices demands:
\* domain_error naming the function, the argument and, for a container, the
\* lowest offending index when bad is not empty; a normal return otherwise
RaisedIffBad(bad) ==
    /\ (err_out.kind = "throw") <=> (bad # {})
    /\ (err_out.kind # "throw") => err_out = Returned("void")
    /\ (err_out.kind = "throw") =>
           /\ err_out.exc = Exc("domain_error", err_in.function, err_in.name)
           /\ (err_in.type # "scalar") => err_out.index = Lowest(bad)

\* C13: is_2F1_converges(a1, a2, b1, z) is false whenever at least one of
\* a1, a2, b1, z is NaN.
C13_NaNIsFalse ==
    ErrDone("is_2F1_converges") =>
        (NaN \in {err_in.a1, err_in.a2, err_in.b1, err_in.z} =>
             err_out = Returned(FALSE))

\* what holds instead: the result is false when all four arguments are NaN
C13_AllNaNIsFalse ==
    ErrDone("is_2F1_converges") =>
        ({err_in.a1, err_in.a2, err_in.b1, err_in.z} = {NaN} =>
             err_out = Returned(FALSE))

\* the value is an integer that is zero or negative
NonposInt(x) == x[2] = 1 /\ x[1] <= 0

\* a1 or a2 is a non-positive integer: the series is a polynomial
Polynomial == NonposInt(err_in.a1) \/ NonposInt(err_in.a2)

\* the largest |a_i| among the a_i that are non-positive integers, 0 if none
LargestDegree ==
    LET S == {-a[1] : a \in {a \in {err_in.a1, err_in.a2} : NonposInt(a)}}
    IN  IF S = {} THEN 0 ELSE CHOOSE t \in S : \A s \in S : s <= t

\* b1 is a non-positive integer that the polynomial's degree reaches
Undefined == NonposInt(err_in.b1) /\ -err_in.b1[1] <= LargestDegree

C23_WitnessBoundary ==
    /\ ErrDone("is_2F1_converges")
    /\ NaN \notin {err_in.a1, err_in.a2, err_in.b1}
    /\ ~Polynomial
    /\ err_in.z = <<-1, 1>>
    /\ Gt(err_in.b1, Add(err_in.a1, err_in.a2))
    /\ err_out = Returned(TRUE)

\* C14: check_finite raises a domain error if and only if y, or an element
\* of a container y, is +infinity, -infinity or NaN; for a container the
\* error reports the lowest-index such element; otherwise the call returns
\* normally.
C14_CheckFinite ==
    ErrDone("check_finite") =>
        LET y == CheckedElements
        IN  RaisedIffBad({n \in 0..(Len(y) - 1) :
                              Coeff(y, n) \in {PosInf, NegInf, NaN}})

\* check_finite has thrown for a std::vector whose first element is finite
\* and whose second element is not
C14_Witness ==
    /\ ErrDone("check_finite")
    /\ err_in.type = "vector"
    /\ Len(err_in.y) >= 2
    /\ Coeff(err_in.y, 0) = One
    /\ Coeff(err_in.y, 1) = NegInf
    /\ err_out.kind = "throw"
    /\ err_out.index = 1

\* check_finite has thrown for an Eigen matrix whose element 1 is the only
\* one that is not finite
C14_WitnessMatrix ==
    /\ ErrDone("check_finite")
    /\ err_in.type = "Eigen"
    /\ err_in.y.d = <<Zero, PosInf>>
    /\ err_out.kind = "throw"
    /\ err_out.index = 1

\* C15: the matrix helper check(y) returns a boolean for every matrix y,
\* true exactly when every element of y is finite.
C15_MatrixCheck ==
    ErrDone("check") =>
        /\ err_out.kind = "return"
        /\ err_out.value = allFinite(err_in.y.d)

\* what holds instead: a matrix whose element 0 is not finite gives false
C15_FirstElementOnly ==
    ErrDone("check") =>
        ((Len(err_in.y.d) > 0 /\ ~isfinite(Coeff(err_in.y.d, 0))) =>
             err_out = Returned(FALSE))

\* the (0-based) indices of the elements of the matrix that are not finite
NonFinite == {n \in 0..(Len(err_in.y.d) - 1) : Coeff(err_in.y.d, n)[2] <= 0}

\* C24: the element loop of the matrix helper returns in its first
\* iteration: for a matrix with a non-finite element the result is decided
\* by element 0 alone, true if element 0 is finite, so a matrix whose only
\* non-finite elements are at indices above 0 is reported as finite.
C24_FirstIterationReturns ==
    (ErrDone("check") /\ NonFinite # {}) =>
        err_out = Returned(0 \notin NonFinite)

\* a matrix with a finite element 0 and a non-finite element 1 was reported
\* as finite
C24_Witness ==
    /\ ErrDone("check")
    /\ NonFinite = {1}
    /\ err_out = Returned(TRUE)

\* C16: check_nonnegative raises a domain error if and only if y, or an
\* element of a vector-like y, is negative or NaN, reporting the
\* lowest-index such element; it never raises for an unsigned element type
\* and returns normally when every element is >= 0.
C16_CheckNonnegative ==
    ErrDone("check_nonnegative") =>
        LET y == CheckedElements
        IN  /\ RaisedIffBad({n \in 0..(Len(y) - 1) :
                                 Gt(Zero, Coeff(y, n)) \/ isnan(Coeff(y, n))})
            /\ err_in.is_unsigned => err_out.kind # "throw"

\* check_nonnegative has thrown for a vector whose first element is
\* +infinity and whose second element is NaN
C16_Witness ==
    /\ ErrDone("check_nonnegative")
    /\ err_in.type = "vector"
    /\ ~err_in.is_unsigned
    /\ Len(err_in.y) >= 2
    /\ Coeff(err_in.y, 0) = PosInf
    /\ Coeff(err_in.y, 1) = NaN
    /\ err_out.kind = "throw"
    /\ err_out.index = 1

\* check_nonnegative has returned for a vector of an unsigned type
C16_WitnessUnsigned ==
    /\ ErrDone("check_nonnegative")
    /\ err_in.type = "vector"
    /\ err_in.is_unsigned
    /\ Len(err_in.y) >= 2
    /\ err_out = Returned("void")

-----------------------------------------------------------------------------
(***************************************************************************)
(* The matrix_multiply kernel of opencl/kernels/matrix_multiply.hpp: the   *)
(* tiles of the scalar products a thread works on.  The threads of one     *)
(* work group that differ in the third dimension (split_id) run in any     *)
(* order; each computes its tiles from the kernel arguments and its ids.   *)
(***************************************************************************)

MaxK == 10          \* largest K (columns of A, rows of B)
MaxSplit == 3       \* largest split_size (global size of dimension 2)

\* the tile edge the kernel is built with
THREAD_BLOCK_SIZE == 2

\* the triangularity of a matrix
Views == {"LOWER", "UPPER", "ENTIRE"}

\* get_group_id(0), get_group_id(1): i / THREAD_BLOCK_SIZE and
\* j / THREAD_BLOCK_SIZE of every thread of the work group
Groups == {0, 1}

NotRun == [split_offset_tiles |-> -1, split_tiles |-> -1,
           start_tile |-> -1, end_tile |-> -1]

min(a, b) == IF a < b THEN a ELSE b

max(a, b) == IF a > b THEN a ELSE b

\* line 47
num_tiles(K) == (K + THREAD_BLOCK_SIZE - 1) \div THREAD_BLOCK_SIZE

\* the split with the remainder left out of the offsets of the later threads
split_no_remainder(tiles, split_id, split_size) ==
    LET split_tiles == tiles \div split_size
        split_remainder == tiles % split_size
        split_offset_tiles == split_id * split_tiles
    IN  IF split_id < split_remainder
        THEN [split_offset_tiles |-> split_offset_tiles + split_id,
              split_tiles |-> split_tiles + 1]
        ELSE [split_offset_tiles |-> split_offset_tiles,
              split_tiles |-> split_tiles]

\* lines 56-64: split_offset_tiles and split_tiles of a thread
split(tiles, split_id, split_size) ==
    LET split_tiles == tiles \div split_size
        split_remainder == tiles % split_size
        split_offset_tiles == split_id * split_tiles
    IN  IF split_id < split_remainder
        THEN [split_offset_tiles |-> split_offset_tiles + split_id,
              split_tiles |-> split_tiles + 1]
        ELSE [split_offset_tiles |-> split_offset_tiles + split_remainder,
              split_tiles |-> split_tiles]

\* lines 81-97: the first and the last tile the thread multiplies
tiles_of_thread(in, split_id) ==
    LET tiles == num_tiles(in.K)
        s == split(tiles, split_id, in.split_size)
        end_tile_A == IF in.lower_upper_A = "LOWER" THEN in.group_row
                      ELSE tiles - 1
        end_tile_B == IF in.lower_upper_B = "UPPER" THEN in.group_col
                      ELSE tiles - 1
        start_tile_A == IF in.lower_upper_A = "UPPER" THEN in.group_row
                        ELSE 0
        start_tile_B == IF in.lower_upper_B = "LOWER" THEN in.group_col
                        ELSE 0
    IN  [split_offset_tiles |-> s.split_offset_tiles,
         split_tiles |-> s.split_tiles,
         start_tile |-> max(max(start_tile_A, start_tile_B),
                            s.split_offset_tiles),
         end_tile |-> min(min(end_tile_A, end_tile_B),
                          s.split_offset_tiles + s.split_tiles - 1)]

\* one thread of the kernel, up to the tiles it is going to multiply
matrix_multiply ==
    /\ \E split_id \in 0..(mm_in.split_size - 1) :
          /\ mm_thread[split_id] = NotRun
          /\ mm_thread' = [mm_thread EXCEPT
                              ![split_id] = tiles_of_thread(mm_in, split_id)]
    /\ UNCHANGED mm_in
    /\ UNCHANGED <<adVars, clVars, hmmVars, ocVars, errVars>>

\* the kernel variables when no kernel is launched
MMIdle ==
    /\ mm_in = [K |-> 0, split_size |-> 0, lower_upper_A |-> "ENTIRE",
                lower_upper_B |-> "ENTIRE", group_row |-> 0, group_col |-> 0]
    /\ mm_thread = <<>>

\* a launch with any arguments, no thread has run
MMInit ==
    /\ mm_in \in [K : 0..MaxK, split_size : 1..MaxSplit,
                  lower_upper_A : Views, lower_upper_B : Views,
                  group_row : Groups, group_col : Groups]
    /\ mm_thread = [split_id \in 0..(mm_in.split_size - 1) |-> NotRun]

NextMM == matrix_multiply

-----------------------------------------------------------------------------
(* Claims about the matrix_multiply kernel.                                *)

SplitIds == 0..(mm_in.split_size - 1)

\* every thread of the work group has computed its tiles
AllRun == \A id \in SplitIds : mm_thread[id] # NotRun

\* the tiles assigned to split_id
SplitRange(id) ==
    mm_thread[id].split_offset_tiles
        .. (mm_thread[id].split_offset_tiles + mm_thread[id].split_tiles - 1)

\* C25: for every num_tiles >= 0 and split_size >= 1 the tile ranges
\* [split_offset_tiles, split_offset_tiles + split_tiles - 1] of
\* split_id = 0..split_size-1 are pairwise disjoint, contiguous in split_id
\* order, cover exactly the tiles 0..num_tiles-1 and differ in length by at
\* most 1; with split_size = 1 the range has offset 0 and num_tiles tiles.
C25_SplitPartition ==
    AllRun =>
        /\ \A a, b \in SplitIds :
              a # b => SplitRange(a) \cap SplitRange(b) = {}
        /\ mm_thread[0].split_offset_tiles = 0
        /\ \A id \in SplitIds \ {0} :
              mm_thread[id].split_offset_tiles
                  = mm_thread[id - 1].split_offset_tiles
                        + mm_thread[id - 1].split_tiles
        /\ UNION {SplitRange(id) : id \in SplitIds}
               = 0..(num_tiles(mm_in.K) - 1)
        /\ \A a, b \in SplitIds :
              /\ mm_thread[a].split_tiles >= 0
              /\ mm_thread[a].split_tiles - mm_thread[b].split_tiles <= 1
        /\ mm_in.split_size = 1 =>
              /\ mm_thread[0].split_offset_tiles = 0
              /\ mm_thread[0].split_tiles = num_tiles(mm_in.K)

\* three threads have split five tiles: two of them took two, the last one
C25_Witness ==
    /\ AllRun
    /\ mm_in.split_size = 3
    /\ num_tiles(mm_in.K) = 5
    /\ mm_thread[1].split_tiles = 2
    /\ mm_thread[2].split_tiles = 1
    /\ mm_thread[2].split_offset_tiles = 4

\* a single thread has taken every tile
C25_WitnessSingle ==
    /\ AllRun
    /\ mm_in.split_size = 1
    /\ mm_thread[0].split_tiles = 5

-----------------------------------------------------------------------------
(* The specifications, one per subsystem.                                  *)

InitAD == ADInit /\ CLIdle /\ HmmIdle /\ OCIdle /\ ErrIdle /\ MMIdle

SpecAD == InitAD /\ [][NextAD]_vars

InitCL == CLInit /\ ADInit /\ HmmIdle /\ OCIdle /\ ErrIdle /\ MMIdle

SpecCL == InitCL /\ [][NextCL]_vars

SpecPacked == InitCL /\ [][NextPacked]_vars

InitHmm == HmmInit /\ ADInit /\ CLIdle /\ OCIdle /\ ErrIdle /\ MMIdle

SpecHmm == InitHmm /\ [][NextHmm]_vars

InitOC == OCInit /\ ADInit /\ CLIdle /\ HmmIdle /\ ErrIdle /\ MMIdle

SpecOC == InitOC /\ [][NextOC]_vars

InitErr == ErrInit /\ ADInit /\ CLIdle /\ HmmIdle /\ OCIdle /\ MMIdle

SpecErr == InitErr /\ [][NextErr]_vars

InitMM == MMInit /\ ADInit /\ CLIdle /\ HmmIdle /\ OCIdle /\ ErrIdle

SpecMM == InitMM /\ [][NextMM]_vars

=============================================================================
